---------------------------- MODULE Spec2Model ----------------------------
(***************************************************************************)
(* The MMDB reader of packages/geoip0 (src/packages/geoip0/src/mmdb):     *)
(* the MMDBParser facade with its LRU cache, the MMDBWalker search-tree   *)
(* walk, the MMDBDecoder data-section decoder, the MMDBMetadataParser,    *)
(* and the ipdo helpers isValidIP / ipToBytes the facade calls.           *)
(*                                                                         *)
(* Representation.  A Uint8Array is a sequence of 0..255; the byte at the *)
(* JavaScript offset o is element o + 1.  A JavaScript string is the      *)
(* sequence of its characters: a query string is a sequence of            *)
(* one-character strings, a decoded string is a sequence of code points.  *)
(* A JavaScript value is a record [t |-> tag, v |-> payload].             *)
(***************************************************************************)
EXTENDS Integers, Sequences, FiniteSets, TLC

(***************************************************************************)
(* Bounds of the model.                                                    *)
(***************************************************************************)
\* the largest cacheSize option a facade is constructed with
MaxCacheSize == 2
\* the depth of nested decode() calls at which the engine's call stack is
\* taken to be exhausted (a RangeError); far deeper than any value nests
MaxCallDepth == 6
\* the most parts between ":" of the query strings given to ipToBytes on
\* its own, beside the full forms of eight groups
MaxParts == 4

(***************************************************************************)
(* JavaScript values.                                                      *)
(***************************************************************************)
Null == [t |-> "null", v |-> 0]
Undefined == [t |-> "undefined", v |-> 0]
NaN == [t |-> "nan", v |-> 0]
Num(n) == [t |-> "num", v |-> n]
Str(cps) == [t |-> "str", v |-> cps]
Bool(b) == [t |-> "bool", v |-> b]
\* a BigInt, as its big-endian base-256 digits without leading zeros
Big(digits) == [t |-> "big", v |-> digits]
\* an IEEE-754 number read by a DataView, as the bytes it was read from
Float(bytes) == [t |-> "float", v |-> bytes]
Bytes(bytes) == [t |-> "bytes", v |-> bytes]
Arr(elems) == [t |-> "arr", v |-> elems]
\* an object, as its own properties [k, v] in insertion order
Obj(props) == [t |-> "obj", v |-> props]

RECURSIVE AllZero(_)
AllZero(s) == s = <<>> \/ (Head(s) = 0 /\ AllZero(Tail(s)))

\* a float is falsy when it is +0, -0 or a NaN
FloatFalsy(b) ==
    LET n == Len(b)
        rest == SubSeq(b, 2, n)
        expAllOnes == IF n = 8
                      THEN b[1] % 128 = 127 /\ b[2] >= 240
                      ELSE b[1] % 128 = 127 /\ b[2] >= 128
        mantissaZero == IF n = 8
                        THEN b[2] % 16 = 0 /\ AllZero(SubSeq(b, 3, n))
                        ELSE b[2] % 128 = 0 /\ AllZero(SubSeq(b, 3, n))
    IN  (b[1] % 128 = 0 /\ AllZero(rest)) \/ (expAllOnes /\ ~mantissaZero)

\* ToBoolean: what `if (x)`, `!x`, `x || y` and `x && y` test
Truthy(x) ==
    CASE x.t = "null" -> FALSE
      [] x.t = "undefined" -> FALSE
      [] x.t = "nan" -> FALSE
      [] x.t = "num" -> x.v # 0
      [] x.t = "str" -> x.v # <<>>
      [] x.t = "bool" -> x.v
      [] x.t = "big" -> x.v # <<>>
      [] x.t = "float" -> ~FloatFalsy(x.v)
      [] OTHER -> TRUE

\* x || y
OrElse(x, y) == IF Truthy(x) THEN x ELSE y

(***************************************************************************)
(* Strings of characters: what split, indexOf, includes, parseInt,        *)
(* Number.prototype.toString and the regular expression of isIPv6 do.     *)
(***************************************************************************)
DecDigits == <<"0", "1", "2", "3", "4", "5", "6", "7", "8", "9">>
HexLower == <<"a", "b", "c", "d", "e", "f">>
HexUpper == <<"A", "B", "C", "D", "E", "F">>

IndexIn(c, seq) ==
    IF \E i \in 1..Len(seq) : seq[i] = c
    THEN CHOOSE i \in 1..Len(seq) : seq[i] = c
    ELSE 0

\* the value of character c as a digit in the radix, or -1
DigitOf(c, radix) ==
    LET d == IndexIn(c, DecDigits)
        l == IndexIn(c, HexLower)
        u == IndexIn(c, HexUpper)
        val == IF d > 0 THEN d - 1
               ELSE IF l > 0 THEN 9 + l
               ELSE IF u > 0 THEN 9 + u
               ELSE -1
    IN  IF val >= 0 /\ val < radix THEN val ELSE -1

RECURSIVE SplitFrom(_, _, _)
\* str.split(sep) for a one-character separator: cur is the piece being read
SplitFrom(s, sep, cur) ==
    IF s = <<>> THEN <<cur>>
    ELSE IF Head(s) = sep THEN <<cur>> \o SplitFrom(Tail(s), sep, <<>>)
    ELSE SplitFrom(Tail(s), sep, Append(cur, Head(s)))

Split(s, sep) == SplitFrom(s, sep, <<>>)

RECURSIVE Join(_, _)
Join(parts, sep) ==
    IF parts = <<>> THEN <<>>
    ELSE IF Len(parts) = 1 THEN parts[1]
    ELSE parts[1] \o <<sep>> \o Join(Tail(parts), sep)

\* ip.includes("::")
IncludesDoubleColon(s) ==
    \E i \in 1..(Len(s) - 1) : s[i] = ":" /\ s[i + 1] = ":"

RECURSIVE SkipSpaces(_)
SkipSpaces(s) ==
    IF s # <<>> /\ Head(s) = " " THEN SkipSpaces(Tail(s)) ELSE s

RECURSIVE DigitsValue(_, _, _)
\* the number the longest prefix of digits of s denotes, after acc
DigitsValue(s, radix, acc) ==
    IF s = <<>> \/ DigitOf(Head(s), radix) < 0 THEN acc
    ELSE DigitsValue(Tail(s), radix, acc * radix + DigitOf(Head(s), radix))

\* Number.parseInt(s, radix), radix 10 or 16
ParseInt(s, radix) ==
    LET t == SkipSpaces(s)
        neg == t # <<>> /\ Head(t) = "-"
        u == IF t # <<>> /\ Head(t) \in {"-", "+"} THEN Tail(t) ELSE t
        w == IF radix = 16 /\ Len(u) >= 2 /\ u[1] = "0" /\ u[2] \in {"x", "X"}
             THEN SubSeq(u, 3, Len(u)) ELSE u
    IN  IF w = <<>> \/ DigitOf(Head(w), radix) < 0 THEN NaN
        ELSE Num(IF neg THEN 0 - DigitsValue(w, radix, 0)
                        ELSE DigitsValue(w, radix, 0))

RECURSIVE NatToString(_)
NatToString(n) ==
    IF n < 10 THEN <<DecDigits[n + 1]>>
    ELSE Append(NatToString(n \div 10), DecDigits[(n % 10) + 1])

\* num.toString() of an integer or NaN
NumToString(x) ==
    IF x.t = "nan" THEN <<"N", "a", "N">>
    ELSE IF x.v < 0 THEN <<"-">> \o NatToString(0 - x.v)
    ELSE NatToString(x.v)

\* /^[0-9A-Fa-f]{1,4}$/.test(part)
IsHexGroup(part) ==
    /\ Len(part) \in 1..4
    /\ \A i \in 1..Len(part) : DigitOf(part[i], 16) >= 0

(***************************************************************************)
(* ipdo: isIPv4, isIPv6, isValidIP, ipv4ToBytes, ipv6ToBytes, ipToBytes.  *)
(***************************************************************************)
isIPv4(ip) ==
    LET parts == Split(ip, ".")
    IN  /\ Len(parts) = 4
        /\ \A i \in 1..4 :
              LET num == ParseInt(parts[i], 10)
              IN  /\ num.t = "num"
                  /\ num.v >= 0
                  /\ num.v <= 255
                  /\ parts[i] = NumToString(num)

isIPv6(ip) ==
    LET parts == Split(ip, ":")
        nonEmptyParts == SelectSeq(parts, LAMBDA p : p # <<>>)
    IN  IF IncludesDoubleColon(ip)
        THEN /\ Len(nonEmptyParts) <= 8
             /\ \A i \in 1..Len(nonEmptyParts) : IsHexGroup(nonEmptyParts[i])
        ELSE /\ Len(parts) = 8
             /\ \A i \in 1..8 : IsHexGroup(parts[i])

isValidIP(ip) == isIPv4(ip) \/ isIPv6(ip)

RECURSIVE ParseParts(_)
\* parts.map((part) => Number.parseInt(part, 10)), of parts that are numbers
ParseParts(parts) ==
    IF parts = <<>> THEN <<>>
    ELSE <<ParseInt(Head(parts), 10).v>> \o ParseParts(Tail(parts))

ipv4ToBytes(ip) == ParseParts(Split(ip, "."))

RECURSIVE Zeros(_)
Zeros(n) == IF n <= 0 THEN <<>> ELSE <<(<<"0">>)>> \o Zeros(n - 1)

RECURSIVE ExpandParts(_, _, _)
\* the loop of ipv6ToBytes that builds expandedParts, from index i on
ExpandParts(parts, i, missingZeros) ==
    IF i > Len(parts) THEN <<>>
    ELSE IF parts[i] = <<>>
         THEN IF i = 1 \/ i = Len(parts)
              THEN ExpandParts(parts, i + 1, missingZeros)
              ELSE Zeros(missingZeros) \o ExpandParts(parts, i + 1, missingZeros)
         ELSE <<parts[i]>> \o ExpandParts(parts, i + 1, missingZeros)

\* the string ipv6ToBytes goes on with once a "::" has been expanded
ExpandIPv6(ip) ==
    IF IncludesDoubleColon(ip)
    THEN LET parts == Split(ip, ":")
             compressedIndex == IndexIn(<<>>, parts)
             emptyCount == Cardinality({i \in compressedIndex..Len(parts) :
                                           parts[i] = <<>>})
             missingZeros == 8 - (Len(parts) - emptyCount) + 1
         IN  Join(ExpandParts(parts, 1, missingZeros), ":")
    ELSE ip

RECURSIVE GroupBytes(_)
GroupBytes(parts) ==
    IF parts = <<>> THEN <<>>
    ELSE LET value == ParseInt(IF Head(parts) = <<>> THEN <<"0">> ELSE Head(parts), 16).v
         IN  <<(value \div 256) % 256, value % 256>> \o GroupBytes(Tail(parts))

ipv6ToBytes(ip) == GroupBytes(Split(ExpandIPv6(ip), ":"))

\* ipToBytes: the bytes, or <<>> standing for the Error it throws
ipToBytes(ip) ==
    IF isIPv4(ip) THEN ipv4ToBytes(ip)
    ELSE IF isIPv6(ip) THEN ipv6ToBytes(ip)
    ELSE <<>>

(***************************************************************************)
(* Reads of a Uint8Array and 32-bit integer arithmetic.                    *)
(***************************************************************************)
\* whether data[offset] is an element (otherwise the read gives undefined)
InBounds(data, offset) == offset >= 0 /\ offset < Len(data)

\* data[offset] as an operand of <<, | or &: undefined converts to 0
U8(data, offset) == IF InBounds(data, offset) THEN data[offset + 1] ELSE 0

\* b << 24 for a byte b: a signed 32-bit integer
Shl24(b) == IF b >= 128 THEN (b - 256) * 16777216 ELSE b * 16777216

\* typedArray.subarray(begin, end): a negative index counts from the end
RelativeIndex(len, x) ==
    IF x < 0 THEN (IF len + x < 0 THEN 0 ELSE len + x)
    ELSE (IF x > len THEN len ELSE x)

Subarray(data, begin, end) ==
    SubSeq(data, RelativeIndex(Len(data), begin) + 1, RelativeIndex(Len(data), end))

\* NaN as an offset or a size: what 29 + undefined gives.  Every offset
\* computed from it is out of bounds, as every offset computed from NaN is.
NaNOffset == -1073741824

(***************************************************************************)
(* bitAt and the node-record readers of the search tree.                   *)
(***************************************************************************)
RECURSIVE Pow2(_)
Pow2(n) == IF n = 0 THEN 1 ELSE 2 * Pow2(n - 1)

\* bitAt(rawAddress, idx)
bitAt(rawAddress, idx) ==
    LET bufIdx == idx \div 8
        bitIdx == 7 - (idx % 8)
    IN  (rawAddress[bufIdx + 1] \div Pow2(bitIdx)) % 2

SupportedRecordSizes == {24, 28, 32}

\* a left reader of 28-bit records that takes byte 3 whole
ReadLeft_WholeByte(data, recordSize, offset) ==
    CASE recordSize = 24 ->
           U8(data, offset) * 65536 + U8(data, offset + 1) * 256 + U8(data, offset + 2)
      [] recordSize = 28 ->
           U8(data, offset + 3) * 1048576
           + U8(data, offset) * 65536 + U8(data, offset + 1) * 256 + U8(data, offset + 2)
      [] recordSize = 32 ->
           Shl24(U8(data, offset)) + U8(data, offset + 1) * 65536
           + U8(data, offset + 2) * 256 + U8(data, offset + 3)

\* walker.left(offset) of createNodeReaders(data, recordSize)
ReadLeft(data, recordSize, offset) ==
    CASE recordSize = 24 ->
           U8(data, offset) * 65536 + U8(data, offset + 1) * 256 + U8(data, offset + 2)
      [] recordSize = 28 ->
           (U8(data, offset + 3) \div 16) * 16777216
           + U8(data, offset) * 65536 + U8(data, offset + 1) * 256 + U8(data, offset + 2)
      [] recordSize = 32 ->
           Shl24(U8(data, offset)) + U8(data, offset + 1) * 65536
           + U8(data, offset + 2) * 256 + U8(data, offset + 3)

\* walker.right(offset) of createNodeReaders(data, recordSize)
ReadRight(data, recordSize, offset) ==
    CASE recordSize = 24 ->
           U8(data, offset + 3) * 65536 + U8(data, offset + 4) * 256 + U8(data, offset + 5)
      [] recordSize = 28 ->
           (U8(data, offset + 3) % 16) * 16777216
           + U8(data, offset + 4) * 65536 + U8(data, offset + 5) * 256 + U8(data, offset + 6)
      [] recordSize = 32 ->
           Shl24(U8(data, offset + 4)) + U8(data, offset + 5) * 65536
           + U8(data, offset + 6) * 256 + U8(data, offset + 7)

(***************************************************************************)
(* MMDBWalker.  A walker is [data, metadata, ipv4StartNodeNumber]; its    *)
(* node readers are ReadLeft and ReadRight at metadata.recordSize.         *)
(***************************************************************************)
RECURSIVE LeftSteps(_, _, _, _)
\* the loop of calculateIpv4StartNode from step i on
LeftSteps(data, metadata, pointer, i) ==
    IF i < 96 /\ pointer < metadata.nodeCount.v
    THEN LeftSteps(data, metadata,
                   ReadLeft(data, metadata.recordSize.v, pointer * metadata.nodeByteSize.v),
                   i + 1)
    ELSE pointer

\* a start node that is always the root: the 96 left steps not taken
calculateIpv4StartNode_Root(data, metadata) == 0

calculateIpv4StartNode(data, metadata) ==
    IF metadata.ipVersion = Num(4) THEN 0
    ELSE LeftSteps(data, metadata, 0, 0)

\* new MMDBWalker(data, metadata): createNodeReaders throws on a record
\* size other than 24, 28 and 32
NewWalker(data, metadata) ==
    IF metadata.recordSize.t = "num" /\ metadata.recordSize.v \in SupportedRecordSizes
    THEN [ok |-> TRUE,
          value |-> [data |-> data, metadata |-> metadata,
                     ipv4StartNodeNumber |-> calculateIpv4StartNode(data, metadata)]]
    ELSE [ok |-> FALSE, error |-> "Unsupported record size"]

RECURSIVE WalkFrom(_, _, _, _)
\* the loop of walk from (nodeNumber, depth) on: the final <<nodeNumber, depth>>
WalkFrom(w, ipBytes, nodeNumber, depth) ==
    IF depth < Len(ipBytes) * 8 /\ nodeNumber < w.metadata.nodeCount.v
    THEN LET bit == bitAt(ipBytes, depth)
             offset == nodeNumber * w.metadata.nodeByteSize.v
         IN  WalkFrom(w, ipBytes,
                      IF bit # 0
                      THEN ReadRight(w.data, w.metadata.recordSize.v, offset)
                      ELSE ReadLeft(w.data, w.metadata.recordSize.v, offset),
                      depth + 1)
    ELSE <<nodeNumber, depth>>

\* the node walk starts at
StartNode(w, ipBytes) == IF Len(ipBytes) = 4 THEN w.ipv4StartNodeNumber ELSE 0

\* a walk that takes a final value equal to nodeCount for a data pointer
walk_Inclusive(w, ipBytes) ==
    LET end == WalkFrom(w, ipBytes, StartNode(w, ipBytes), 0)
    IN  IF end[1] >= w.metadata.nodeCount.v
        THEN [record |-> Num(end[1]), prefixLength |-> end[2]]
        ELSE [record |-> Null, prefixLength |-> end[2]]

\* walk(ipBytes): [record, prefixLength], record a number or null
walk(w, ipBytes) ==
    LET end == WalkFrom(w, ipBytes, StartNode(w, ipBytes), 0)
    IN  IF end[1] > w.metadata.nodeCount.v
        THEN [record |-> Num(end[1]), prefixLength |-> end[2]]
        ELSE [record |-> Null, prefixLength |-> end[2]]

\* MMDBWalker.isDataPointer(record, nodeCount)
isDataPointer(record, nodeCount) == record > nodeCount

(***************************************************************************)
(* new TextDecoder("utf-8").decode(bytes): the code points of the string. *)
(***************************************************************************)
ReplacementChar == 65533

\* the index of the first byte from i on that is above 127, Len(bytes) + 1
\* when there is none: the bytes before it are one code point each
AsciiEnd(bytes, i) ==
    LET above == {j \in i..Len(bytes) : bytes[j] > 127}
    IN  IF above = {} THEN Len(bytes) + 1
        ELSE CHOOSE j \in above : \A k \in above : j <= k

RECURSIVE Utf8From(_, _, _, _, _, _)
\* the decoder's loop from byte i on, with `needed` continuation bytes
\* outstanding for the code point cp, the next one within lower..upper
Utf8From(bytes, i, needed, cp, lower, upper) ==
    IF i > Len(bytes)
    THEN (IF needed # 0 THEN <<ReplacementChar>> ELSE <<>>)
    ELSE LET b == bytes[i]
         IN  IF needed = 0
             THEN IF b <= 127
                  THEN SubSeq(bytes, i, AsciiEnd(bytes, i) - 1)
                       \o Utf8From(bytes, AsciiEnd(bytes, i), 0, 0, 128, 191)
                  ELSE IF b >= 194 /\ b <= 223
                  THEN Utf8From(bytes, i + 1, 1, b % 32, 128, 191)
                  ELSE IF b >= 224 /\ b <= 239
                  THEN Utf8From(bytes, i + 1, 2, b % 16,
                                IF b = 224 THEN 160 ELSE 128,
                                IF b = 237 THEN 159 ELSE 191)
                  ELSE IF b >= 240 /\ b <= 244
                  THEN Utf8From(bytes, i + 1, 3, b % 8,
                                IF b = 240 THEN 144 ELSE 128,
                                IF b = 244 THEN 143 ELSE 191)
                  ELSE <<ReplacementChar>> \o Utf8From(bytes, i + 1, 0, 0, 128, 191)
             ELSE IF b < lower \/ b > upper
                  THEN <<ReplacementChar>> \o Utf8From(bytes, i, 0, 0, 128, 191)
                  ELSE IF needed = 1
                       THEN <<cp * 64 + (b % 64)>> \o Utf8From(bytes, i + 1, 0, 0, 128, 191)
                       ELSE Utf8From(bytes, i + 1, needed - 1, cp * 64 + (b % 64), 128, 191)

\* a leading byte order mark is dropped
Utf8Decode(bytes) ==
    LET cps == Utf8From(bytes, 1, 0, 0, 128, 191)
    IN  IF cps # <<>> /\ Head(cps) = 65279 THEN Tail(cps) ELSE cps

(***************************************************************************)
(* MMDBDecoder.  A decoder is [data, baseOffset].  An operation that can   *)
(* throw gives [ok |-> TRUE, value, offset] (a Cursor) or                  *)
(* [ok |-> FALSE, error].                                                  *)
(***************************************************************************)
Cursor(value, offset) == [ok |-> TRUE, value |-> value, offset |-> offset]
Throw(error) == [ok |-> FALSE, error |-> error]

pointerValueOffset == <<0, 2048, 526336, 0>>

\* readUint16BE(offset)
readUint16BE(data, offset) == U8(data, offset) * 256 + U8(data, offset + 1)

RECURSIVE readUintBE(_, _, _)
\* readUintBE(offset, size), size at most 3
readUintBE(data, offset, size) ==
    IF size = 0 THEN 0
    ELSE readUintBE(data, offset, size - 1) * 256 + U8(data, offset + size - 1)

\* readUint32BE(offset): the result of << and | is a signed 32-bit integer
readUint32BE(data, offset) ==
    Shl24(U8(data, offset)) + U8(data, offset + 1) * 65536
    + U8(data, offset + 2) * 256 + U8(data, offset + 3)

\* new DataView(buffer, offset, n) throws a RangeError unless the n bytes lie
\* in the buffer (the image fills its buffer: byteOffset is 0)
ViewInBounds(data, offset, n) == offset >= 0 /\ offset + n <= Len(data)

\* readInt32BE(offset), within bounds
readInt32BE(data, offset) ==
    Shl24(data[offset + 1]) + data[offset + 2] * 65536
    + data[offset + 3] * 256 + data[offset + 4]

\* a size that is the bytes after the control byte alone: 29, 285 and 65821
\* not added
sizeFromCtrlByte_NoBase(data, ctrlByte, offset) ==
    LET size == ctrlByte % 32
    IN  IF size < 29 THEN [offset |-> offset, value |-> size]
        ELSE IF size = 29 THEN [offset |-> offset + 1, value |-> U8(data, offset)]
        ELSE IF size = 30
        THEN [offset |-> offset + 2, value |-> readUint16BE(data, offset)]
        ELSE [offset |-> offset + 3, value |-> readUintBE(data, offset, 3)]

\* sizeFromCtrlByte(ctrlByte, offset)
sizeFromCtrlByte(data, ctrlByte, offset) ==
    LET size == ctrlByte % 32
    IN  IF size < 29 THEN [offset |-> offset, value |-> size]
        ELSE IF size = 29
        THEN [offset |-> offset + 1,
              value |-> IF InBounds(data, offset) THEN 29 + data[offset + 1]
                        ELSE NaNOffset]
        ELSE IF size = 30
        THEN [offset |-> offset + 2, value |-> 285 + readUint16BE(data, offset)]
        ELSE [offset |-> offset + 3, value |-> 65821 + readUintBE(data, offset, 3)]

\* decodePointer(ctrlByte, offset): the cursor of the target offset
decodePointer(d, ctrlByte, offset) ==
    LET pointerSize == (ctrlByte \div 8) % 4
        pointer == d.baseOffset + pointerValueOffset[pointerSize + 1]
        packed == CASE pointerSize = 0 -> (ctrlByte % 8) * 256 + U8(d.data, offset)
                    [] pointerSize = 1 -> (ctrlByte % 8) * 65536 + readUint16BE(d.data, offset)
                    [] pointerSize = 2 -> (ctrlByte % 8) * 16777216 + readUintBE(d.data, offset, 3)
                    [] OTHER -> readUint32BE(d.data, offset)
    IN  Cursor(pointer + packed, offset + pointerSize + 1)

\* a size or an offset plus n: NaN stays NaN
Plus(x, n) == IF x = NaNOffset \/ n = NaNOffset THEN NaNOffset ELSE x + n

\* decodeUtf8String(offset, size)
decodeUtf8String(data, offset, size) ==
    IF size = 0 THEN Str(<<>>)
    ELSE IF size = NaNOffset THEN Str(Utf8Decode(Subarray(data, offset, 0)))
    ELSE Str(Utf8Decode(Subarray(data, offset, offset + size)))

\* decodeBytes(offset, size)
decodeBytes(data, offset, size) ==
    IF size = NaNOffset THEN Bytes(Subarray(data, offset, 0))
    ELSE Bytes(Subarray(data, offset, offset + size))

RECURSIVE StripZeros(_)
StripZeros(s) == IF s # <<>> /\ Head(s) = 0 THEN StripZeros(Tail(s)) ELSE s

\* the BigInt the loops of Uint64 and Uint128 accumulate from n bytes;
\* BigInt(undefined) throws a TypeError
decodeBigInt(data, offset, n, next) ==
    IF \A i \in 0..(n - 1) : InBounds(data, offset + i)
    THEN Cursor(Big(StripZeros(SubSeq(data, offset + 1, offset + n))), next)
    ELSE Throw("TypeError: Cannot convert undefined to a BigInt")

\* String(key) for map[key] = value: the property name
PropertyKey(key) ==
    CASE key.t = "str" -> key.v
      [] key.t = "num" -> IF key.v < 0
                          THEN <<45>> \o [i \in 1..Len(NatToString(0 - key.v)) |->
                                            47 + IndexIn(NatToString(0 - key.v)[i], DecDigits)]
                          ELSE <<>> \o [i \in 1..Len(NatToString(key.v)) |->
                                          47 + IndexIn(NatToString(key.v)[i], DecDigits)]
      [] key.t = "null" -> <<110, 117, 108, 108>>
      [] key.t = "bool" -> IF key.v THEN <<116, 114, 117, 101>>
                                    ELSE <<102, 97, 108, 115, 101>>
      [] OTHER -> <<91, 111, 98, 106, 101, 99, 116, 93>>

\* props with property k set to v: an existing property keeps its place
SetProperty(props, k, v) ==
    IF \E i \in 1..Len(props) : props[i].k = k
    THEN <<>> \o [i \in 1..Len(props) |->
                     IF props[i].k = k THEN [k |-> k, v |-> v] ELSE props[i]]
    ELSE Append(props, [k |-> k, v |-> v])

RECURSIVE decode(_, _, _)
RECURSIVE decodeArray(_, _, _, _, _)
RECURSIVE decodeMap(_, _, _, _, _)

\* decodeByType(type, offset, size); type 16 and above, and NaN (-1 here),
\* are the unknown types
decodeByType(d, type, offset, size, depth) ==
    CASE type = 2 -> Cursor(decodeUtf8String(d.data, offset, size), Plus(offset, size))
      [] type = 3 -> IF ViewInBounds(d.data, offset, 8)
                     THEN Cursor(Float(SubSeq(d.data, offset + 1, offset + 8)), offset + 8)
                     ELSE Throw("RangeError: Offset is outside the bounds of the DataView")
      [] type = 4 -> Cursor(decodeBytes(d.data, offset, size), Plus(offset, size))
      [] type = 5 -> IF size = 0 THEN Cursor(Num(0), offset)
                     ELSE IF size = 1 /\ ~InBounds(d.data, offset)
                     THEN Cursor(Undefined, offset + 1)
                     ELSE IF size = 1 THEN Cursor(Num(d.data[offset + 1]), offset + 1)
                     ELSE IF size = 2 THEN Cursor(Num(readUint16BE(d.data, offset)), offset + 2)
                     ELSE Throw("Invalid Uint16 size")
      [] type = 6 -> IF size = 0 THEN Cursor(Num(0), offset)
                     ELSE IF size = 1 /\ ~InBounds(d.data, offset)
                     THEN Cursor(Undefined, offset + 1)
                     ELSE IF size = 1 THEN Cursor(Num(d.data[offset + 1]), offset + 1)
                     ELSE IF size = 2 THEN Cursor(Num(readUint16BE(d.data, offset)), offset + 2)
                     ELSE IF size = 3 THEN Cursor(Num(readUintBE(d.data, offset, 3)), offset + 3)
                     ELSE IF size = 4 THEN Cursor(Num(readUint32BE(d.data, offset)), offset + 4)
                     ELSE Throw("Invalid Uint32 size")
      [] type = 7 -> decodeMap(d, size, offset, <<>>, depth)
      [] type = 8 -> IF size = 0 THEN Cursor(Num(0), offset)
                     ELSE IF size # NaNOffset /\ size < 4
                     THEN Cursor(Num(readUintBE(d.data, offset, size)), offset + size)
                     ELSE IF ViewInBounds(d.data, offset, 4)
                     THEN Cursor(Num(readInt32BE(d.data, offset)), offset + 4)
                     ELSE Throw("RangeError: Offset is outside the bounds of the DataView")
      [] type = 9 -> IF size = 0 THEN Cursor(Big(<<>>), offset)
                     ELSE IF size # NaNOffset /\ size <= 8
                     THEN decodeBigInt(d.data, offset, size, offset + size)
                     ELSE Throw("Invalid Uint64 size")
      [] type = 10 -> IF size = 0 THEN Cursor(Big(<<>>), offset)
                      ELSE IF size = NaNOffset THEN Cursor(Big(<<>>), NaNOffset)
                      ELSE decodeBigInt(d.data, offset, IF size < 16 THEN size ELSE 16,
                                        offset + size)
      [] type = 11 -> decodeArray(d, size, offset, <<>>, depth)
      [] type = 12 -> Cursor(Null, offset)
      [] type = 13 -> Cursor(Null, offset)
      [] type = 14 -> Cursor(Bool(size # 0), offset)
      [] type = 15 -> IF ViewInBounds(d.data, offset, 4)
                      THEN Cursor(Float(SubSeq(d.data, offset + 1, offset + 4)), offset + 4)
                      ELSE Throw("RangeError: Offset is outside the bounds of the DataView")
      [] OTHER -> Throw("Unknown type")

\* decodeArray(size, offset): array holds the elements decoded so far
decodeArray(d, size, offset, array, depth) ==
    IF size = NaNOffset \/ Len(array) >= size THEN Cursor(Arr(array), offset)
    ELSE LET element == decode(d, offset, depth + 1)
         IN  IF element.ok
             THEN decodeArray(d, size, element.offset, Append(array, element.value), depth)
             ELSE element

\* decodeMap(size, offset): map holds the properties set so far, size the
\* number of pairs still to read
decodeMap(d, size, offset, map, depth) ==
    IF size = NaNOffset \/ size <= 0 THEN Cursor(Obj(map), offset)
    ELSE LET key == decode(d, offset, depth + 1)
         IN  IF ~key.ok THEN key
             ELSE LET value == decode(d, key.offset, depth + 1)
                  IN  IF ~value.ok THEN value
                      ELSE decodeMap(d, size - 1, value.offset,
                                     SetProperty(map, PropertyKey(key.value), value.value),
                                     depth)

\* decode(offset), at nesting depth `depth` of decode calls; nesting beyond
\* MaxCallDepth overflows the call stack
decode(d, offset, depth) ==
    IF depth > MaxCallDepth
    THEN Throw("RangeError: Maximum call stack size exceeded")
    ELSE LET ctrlByte == U8(d.data, offset)
             type == ctrlByte \div 32
         IN  IF type = 1
             THEN LET tmp == decodePointer(d, ctrlByte, offset + 1)
                      target == decode(d, tmp.value, depth + 1)
                  IN  IF target.ok THEN Cursor(target.value, tmp.offset) ELSE target
             ELSE IF type = 0
             THEN IF InBounds(d.data, offset + 1) /\ d.data[offset + 2] + 7 < 8
                  THEN Throw("Invalid Extended Type")
                  ELSE LET tmp == IF InBounds(d.data, offset + 1)
                                  THEN d.data[offset + 2] + 7 ELSE -1
                           size == sizeFromCtrlByte(d.data, ctrlByte, offset + 2)
                       IN  decodeByType(d, tmp, size.offset, size.value, depth)
             ELSE LET size == sizeFromCtrlByte(d.data, ctrlByte, offset + 1)
                  IN  decodeByType(d, type, size.offset, size.value, depth)

\* decodeFast(offset)
decodeFast(d, offset) == decode(d, offset, 0)

\* new MMDBDecoder(data, baseOffset)
NewDecoder(data, baseOffset) == [data |-> data, baseOffset |-> baseOffset]

(***************************************************************************)
(* MMDBMetadataParser.                                                     *)
(***************************************************************************)
METADATA_START_MARKER ==
    <<171, 205, 239, 77, 97, 120, 77, 105, 110, 100, 46, 99, 111, 109>>

\* the offsets at which the marker occurs in data
MarkerOffsets(data) ==
    {i \in 0..(Len(data) - Len(METADATA_START_MARKER)) :
        \A j \in 1..Len(METADATA_START_MARKER) : data[i + j] = METADATA_START_MARKER[j]}

\* a search that runs from the start forward and returns at the first match
findMetadataStart_First(data) ==
    LET offsets == MarkerOffsets(data)
    IN  IF offsets = {}
        THEN Throw("Could not find metadata start marker")
        ELSE LET i == CHOOSE m \in offsets : \A n \in offsets : m <= n
             IN  Cursor(i + Len(METADATA_START_MARKER), 0)

\* findMetadataStart(data): the search runs from the end backward and
\* returns at the first match
findMetadataStart(data) ==
    LET offsets == MarkerOffsets(data)
    IN  IF offsets = {}
        THEN Throw("Could not find metadata start marker")
        ELSE LET i == CHOOSE m \in offsets : \A n \in offsets : n <= m
             IN  Cursor(i + Len(METADATA_START_MARKER), 0)

\* "binary_format_major_version"
Key_binary_format_major_version ==
    <<98, 105, 110, 97, 114, 121, 95, 102, 111, 114, 109, 97, 116, 95, 109, 97, 106, 111, 114, 95, 118, 101, 114, 115, 105, 111, 110>>
\* "binary_format_minor_version"
Key_binary_format_minor_version ==
    <<98, 105, 110, 97, 114, 121, 95, 102, 111, 114, 109, 97, 116, 95, 109, 105, 110, 111, 114, 95, 118, 101, 114, 115, 105, 111, 110>>
\* "build_epoch"
Key_build_epoch ==
    <<98, 117, 105, 108, 100, 95, 101, 112, 111, 99, 104>>
\* "database_type"
Key_database_type ==
    <<100, 97, 116, 97, 98, 97, 115, 101, 95, 116, 121, 112, 101>>
\* "languages"
Key_languages ==
    <<108, 97, 110, 103, 117, 97, 103, 101, 115>>
\* "description"
Key_description ==
    <<100, 101, 115, 99, 114, 105, 112, 116, 105, 111, 110>>
\* "ip_version"
Key_ip_version ==
    <<105, 112, 95, 118, 101, 114, 115, 105, 111, 110>>
\* "node_count"
Key_node_count ==
    <<110, 111, 100, 101, 95, 99, 111, 117, 110, 116>>
\* "record_size"
Key_record_size ==
    <<114, 101, 99, 111, 114, 100, 95, 115, 105, 122, 101>>

\* metadata.<key>: undefined unless the value is an object with the property
GetProperty(x, key) ==
    IF x.t = "obj" /\ \E i \in 1..Len(x.v) : x.v[i].k = key
    THEN x.v[CHOOSE i \in 1..Len(x.v) : x.v[i].k = key].v
    ELSE Undefined

RECURSIVE BigValue(_)
BigValue(digits) ==
    IF digits = <<>> THEN 0
    ELSE BigValue(SubSeq(digits, 1, Len(digits) - 1)) * 256 + digits[Len(digits)]

\* Number(x) for the values x || 0 that the images read here give: an
\* integer, a BigInt below 2^31 or true; a float is itself; anything else
\* is taken to convert to NaN
ToNumber(x) ==
    CASE x.t = "num" -> x
      [] x.t = "big" /\ (Len(x.v) < 4 \/ (Len(x.v) = 4 /\ x.v[1] < 128)) -> Num(BigValue(x.v))
      [] x.t = "bool" -> Num(IF x.v THEN 1 ELSE 0)
      [] x.t = "float" -> x
      [] OTHER -> NaN

\* String(x) for a string or a non-negative integer
ToStringValue(x) ==
    IF x.t = "str" THEN x ELSE Str(PropertyKey(x))

\* Math.floor((n * 2) / 8)
NodeByteSizeOf(recordSize) ==
    IF recordSize.t = "num" THEN Num((recordSize.v * 2) \div 8) ELSE NaN

Times(a, b) == IF a.t = "num" /\ b.t = "num" THEN Num(a.v * b.v) ELSE NaN

RECURSIVE CeilLog2(_, _)
\* the least k at or above k0 with 2^k >= n
CeilLog2(n, k) == IF Pow2(k) >= n THEN k ELSE CeilLog2(n, k + 1)

\* calculateTreeDepth(nodeCount)
calculateTreeDepth(nodeCount) ==
    IF nodeCount.t # "num" THEN NaN
    ELSE IF nodeCount.v = 0 THEN Num(0)
    ELSE IF nodeCount.v < 0 THEN NaN
    ELSE Num(CeilLog2(nodeCount.v, 0))

\* convertToMetadata(metadata)
convertToMetadata(metadata) ==
    IF ~Truthy(metadata) \/ metadata.t \notin {"obj", "arr", "bytes"}
    THEN Throw("Invalid metadata structure")
    ELSE LET recordSize == ToNumber(OrElse(GetProperty(metadata, Key_record_size), Num(0)))
             nodeCount == ToNumber(OrElse(GetProperty(metadata, Key_node_count), Num(0)))
         IN  Cursor(
               [binaryFormatMajorVersion |->
                    ToNumber(OrElse(GetProperty(metadata, Key_binary_format_major_version), Num(0))),
                binaryFormatMinorVersion |->
                    ToNumber(OrElse(GetProperty(metadata, Key_binary_format_minor_version), Num(0))),
                buildEpoch |-> ToNumber(OrElse(GetProperty(metadata, Key_build_epoch), Num(0))),
                databaseType |->
                    ToStringValue(OrElse(GetProperty(metadata, Key_database_type), Str(<<>>))),
                languages |-> IF GetProperty(metadata, Key_languages).t = "arr"
                              THEN GetProperty(metadata, Key_languages) ELSE Arr(<<>>),
                description |-> OrElse(GetProperty(metadata, Key_description), Obj(<<>>)),
                ipVersion |-> ToNumber(OrElse(GetProperty(metadata, Key_ip_version), Num(0))),
                nodeCount |-> nodeCount,
                recordSize |-> recordSize,
                nodeByteSize |-> NodeByteSizeOf(recordSize),
                searchTreeSize |-> Times(nodeCount, NodeByteSizeOf(recordSize)),
                treeDepth |-> calculateTreeDepth(nodeCount)],
               0)

\* MMDBMetadataParser.parse(data): the metadata as the cursor's value
parse(data) ==
    LET start == findMetadataStart(data)
    IN  IF ~start.ok THEN start
        ELSE LET metadataOffset == start.value
                 decoded == decode(NewDecoder(data, metadataOffset), metadataOffset, 0)
             IN  IF ~decoded.ok THEN decoded
                 ELSE IF ~Truthy(decoded.value)
                 THEN Throw("Cannot parse binary database metadata")
                 ELSE convertToMetadata(decoded.value)

\* MMDBMetadataParser.validate(metadata)
validate(metadata) ==
    /\ Truthy(metadata.databaseType)
    /\ Truthy(metadata.ipVersion)
    /\ Truthy(metadata.nodeCount)
    /\ Truthy(metadata.recordSize)
    /\ Truthy(metadata.binaryFormatMajorVersion)

(***************************************************************************)
(* LRUCache.  A cache is [maxSize, cache], cache the entries [k, v] of    *)
(* the Map in insertion order: the first is the least recently used.       *)
(***************************************************************************)
NewCache(maxSize) == [maxSize |-> maxSize, cache |-> <<>>]

CacheHas(c, key) == \E i \in 1..Len(c.cache) : c.cache[i].k = key

\* a Map that never gives an entry back
CacheValue_Miss(c, key) == Undefined

\* Map.prototype.get(key)
CacheValue(c, key) ==
    IF CacheHas(c, key)
    THEN c.cache[CHOOSE i \in 1..Len(c.cache) : c.cache[i].k = key].v
    ELSE Undefined

\* Map.prototype.delete(key)
CacheDelete(entries, key) == SelectSeq(entries, LAMBDA e : e.k # key)

\* a get that leaves the entry where it is
CacheGet_InPlace(c, key) == [self |-> c, value |-> CacheValue(c, key)]

\* LRUCache.get(key): the cache afterwards and the value returned
CacheGet(c, key) ==
    LET value == CacheValue(c, key)
    IN  IF value # Undefined
        THEN [self |-> [c EXCEPT !.cache = Append(CacheDelete(c.cache, key),
                                                   [k |-> key, v |-> value])],
              value |-> value]
        ELSE [self |-> c, value |-> value]

\* a set that never removes the least recently used entry
CacheSet_NoEvict(c, key, value) ==
    [c EXCEPT !.cache = Append(CacheDelete(c.cache, key), [k |-> key, v |-> value])]

\* LRUCache.set(key, value): the cache afterwards
CacheSet(c, key, value) ==
    LET kept == IF CacheHas(c, key) THEN CacheDelete(c.cache, key)
                ELSE IF Len(c.cache) >= c.maxSize /\ c.cache # <<>> THEN Tail(c.cache)
                ELSE c.cache
    IN  [c EXCEPT !.cache = Append(kept, [k |-> key, v |-> value])]

\* LRUCache.clear()
CacheClear(c) == [c EXCEPT !.cache = <<>>]

(***************************************************************************)
(* The database images loaded and the addresses queried.  The images are   *)
(* written with the encodings of the format: tree nodes of two records,    *)
(* the 16-byte separator, data items, the marker and the metadata map.     *)
(***************************************************************************)
\* the three big-endian bytes of n
\* the property names "names", "name" and "en"
Key_names == <<110, 97, 109, 101, 115>>
Key_name == <<110, 97, 109, 101>>
Key_en == <<101, 110>>

Bytes3(n) == <<(n \div 65536) % 256, (n \div 256) % 256, n % 256>>

\* a node of two 24-bit records
Node24(left, right) == Bytes3(left) \o Bytes3(right)

\* a node of two 28-bit records: byte 3 holds the two high nibbles
Node28(left, right) ==
    Bytes3(left) \o <<(left \div 16777216) * 16 + (right \div 16777216)>> \o Bytes3(right)

Separator == <<0, 0, 0, 0, 0, 0, 0, 0, 0, 0, 0, 0, 0, 0, 0, 0>>

\* a Utf8String item of at most 28 ASCII characters
EncString(cps) == <<64 + Len(cps)>> \o cps
\* a Uint16 item below 256
EncUint16(n) == IF n = 0 THEN <<160>> ELSE <<161, n>>
\* a Uint32 item below 256
EncUint32(n) == IF n = 0 THEN <<192>> ELSE <<193, n>>
\* the control byte of a Map of n pairs, n at most 28
EncMapHeader(n) == <<224 + n>>

\* a one-pair map {"iso": code}
IsoRecord(code) == EncMapHeader(1) \o EncString(<<105, 115, 111>>) \o EncString(code)

\* the pointer of size class 0 to the data-section offset target < 2048
EncPointer(target) == <<32 + (target \div 256), target % 256>>

\* the record value that points at data-section offset off
PointerTo(nodeCount, off) == nodeCount + 16 + off

\* the marker and a metadata map; withType = FALSE leaves database_type out
MetadataSection(recordSize, nodeCount, ipVersion, withType) ==
    METADATA_START_MARKER
    \o EncMapHeader(IF withType THEN 5 ELSE 4)
    \o EncString(Key_binary_format_major_version) \o EncUint16(2)
    \o (IF withType THEN EncString(Key_database_type) \o EncString(<<84>>) ELSE <<>>)
    \o EncString(Key_ip_version) \o EncUint16(ipVersion)
    \o EncString(Key_node_count) \o EncUint32(nodeCount)
    \o EncString(Key_record_size) \o EncUint16(recordSize)

\* Data section of ImageV4, by offset:
\*    0  {"iso": "AU"}                8  Uint16 of size 0: the number 0
\*    9  extended type byte 0: invalid 11  pointer (class 0) to offset 0
\*   13  {"iso": "NZ"}               21  Uint16 of size 3: invalid size
\*   25  extended type byte 9: unknown type 16
\*   27  Container (type 12): null
DataV4 ==
    IsoRecord(<<65, 85>>) \o <<160>> \o <<0, 0>> \o <<32, 0>>
    \o IsoRecord(<<78, 90>>) \o <<163, 0, 0, 0>> \o <<0, 9>> \o <<0, 5>>

\* An IPv4 database of 28-bit records.  E is "no data" (= nodeCount).
\*   0.0.0.0/1 .. 0.0.0.0/7 : nodes 1..7, right branches E
\*   1.0.0.0/8   -> {"iso": "AU"}       128.0.0.0/3 -> invalid extended type
\*   160.0.0.0/3 -> the number 0        192.0.0.0/3 -> pointer to {"iso": "AU"}
\*   224.0.0.0/4 -> {"iso": "NZ"}       240.0.0.0/4 -> node 11 again (a cycle)
ImageV4 ==
    LET nodeCount == 12
        E == nodeCount
        P(off) == PointerTo(nodeCount, off)
    IN  Node28(1, 8)
        \o Node28(2, E) \o Node28(3, E) \o Node28(4, E)
        \o Node28(5, E) \o Node28(6, E) \o Node28(7, E)
        \o Node28(E, P(0))
        \o Node28(9, 10)
        \o Node28(P(9), P(8))
        \o Node28(P(11), 11)
        \o Node28(P(13), 11)
        \o Separator \o DataV4
        \o MetadataSection(28, nodeCount, 4, TRUE)

\* An IPv6 database of 24-bit records.  The left branch of node 1 leads
\* back to node 1, so the 96 left steps from the root end at node 1, the
\* IPv4 start node.  Data section: 0 {"iso": "DE"}, 8 Uint16 of size 3
\* (invalid size), 12 extended type byte 9 (unknown type 16), 14 Container
\* (type 12, decoded as null).
\*   128.0.0.0/3 -> invalid size        160.0.0.0/3 -> unknown type
\*   192.0.0.0/3 -> Container           224.0.0.0/3 -> {"iso": "DE"}
ImageV6 ==
    LET nodeCount == 5
        E == nodeCount
        P(off) == PointerTo(nodeCount, off)
    IN  Node24(1, E)
        \o Node24(1, 2)
        \o Node24(4, 3)
        \o Node24(P(14), P(0))
        \o Node24(P(8), P(12))
        \o Separator
        \o IsoRecord(<<68, 69>>) \o <<163, 0, 0, 0>> \o <<0, 9>> \o <<0, 5>>
        \o MetadataSection(24, nodeCount, 6, TRUE)

\* An IPv6 database whose root's left record is already a data pointer:
\* the left path leaves the nodes at its first step.
ImageV6Short ==
    Node24(PointerTo(1, 0), 1)
    \o Separator \o IsoRecord(<<70, 82>>)
    \o MetadataSection(24, 1, 6, TRUE)

RECURSIVE ChainNodes(_, _, _)
\* nodes i .. n - 1 of 24-bit records: left leads to the next node, right to E
ChainNodes(i, n, E) ==
    IF i >= n THEN <<>> ELSE Node24(i + 1, E) \o ChainNodes(i + 1, n, E)

\* An IPv6 database laid out the way a database writer lays it out: the
\* nodes 0 .. 95 are the 96 left steps of ::/96, node 96 is the root of the
\* IPv4 addresses.  128.0.0.0/1 -> {"iso": "DE"}, 64.0.0.0/2 -> {"iso": "FR"},
\* 0.0.0.0/2 has no data.
ImageV6Deep ==
    LET nodeCount == 98
        E == nodeCount
    IN  ChainNodes(0, 96, E)
        \o Node24(97, PointerTo(nodeCount, 0))
        \o Node24(E, PointerTo(nodeCount, 8))
        \o Separator \o IsoRecord(<<68, 69>>) \o IsoRecord(<<70, 82>>)
        \o MetadataSection(24, nodeCount, 6, TRUE)

\* An IPv6 database of 28-bit records whose ::/2 has no data: the left
\* path ends at "no data" after two steps.
ImageV6Empty ==
    LET nodeCount == 2
        E == nodeCount
    IN  Node28(1, PointerTo(nodeCount, 0))
        \o Node28(E, PointerTo(nodeCount, 0))
        \o Separator \o IsoRecord(<<68, 69>>)
        \o MetadataSection(28, nodeCount, 6, TRUE)

\* a node of two 32-bit records, each given by its four bytes
Node32(left, right) == left \o right

\* An IPv6 database of 32-bit records, two of them with the top bit set:
\* the right record of the root and the right record of node 2.  The left
\* record of node 1 leads back to node 1, the IPv4 start node.
\*   ::/1 -> node 1        8000::/1 -> FF FF FF FF
\*   node 1: left node 1, right node 2
\*   node 2: left -> {"iso": "DE"}, right -> FF FF FF FE
ImageV6Wide ==
    LET nodeCount == 3
    IN  Node32(<<0, 0, 0, 1>>, <<255, 255, 255, 255>>)
        \o Node32(<<0, 0, 0, 1>>, <<0, 0, 0, 2>>)
        \o Node32(<<0, 0, 0, PointerTo(nodeCount, 0)>>, <<255, 255, 255, 254>>)
        \o Separator \o IsoRecord(<<68, 69>>)
        \o MetadataSection(32, nodeCount, 6, TRUE)

\* no marker
ImageNoMarker == <<1, 2, 3>>
\* ImageV4 followed by a second marker and a metadata map without
\* database_type, of node_count 200: validate() fails
ImageNoType == ImageV4 \o MetadataSection(28, 200, 4, FALSE)
\* record size 16, node_count 200: createNodeReaders throws
ImageRecordSize16 == Node24(1, 1) \o Separator \o MetadataSection(16, 200, 4, TRUE)

Images == {ImageV4, ImageV6, ImageNoMarker, ImageNoType, ImageRecordSize16}

\* the languages asked for: "ja", "fr" and "en"
Lang_ja == <<106, 97>>
Lang_fr == <<102, 114>>
Languages == {Lang_ja, Lang_fr, Key_en}

Tokyo == <<84, 111, 107, 121, 111>>
\* the two code points of the Japanese name of Tokyo, U+6771 U+4EAC
TokyoJa == <<26481, 20140>>

\* the names maps {"en": "Tokyo", "ja": U+6771 U+4EAC}, {"de": "Tokio"} and
\* {"ja": "", "en": "Tokyo"}
NamesTokyo ==
    EncMapHeader(2) \o EncString(Key_en) \o EncString(Tokyo)
    \o EncString(Lang_ja) \o <<70, 230, 157, 177, 228, 186, 172>>
NamesTokio ==
    EncMapHeader(1) \o EncString(<<100, 101>>) \o EncString(<<84, 111, 107, 105, 111>>)
NamesEmptyJa ==
    EncMapHeader(2) \o EncString(Lang_ja) \o EncString(<<>>)
    \o EncString(Key_en) \o EncString(Tokyo)

\* the one-pair map {key: item}
EncEntry(key, item) == EncMapHeader(1) \o EncString(key) \o item

Key_city == <<99, 105, 116, 121>>
Key_country == <<99, 111, 117, 110, 116, 114, 121>>
Key_subdivisions == <<115, 117, 98, 100, 105, 118, 105, 115, 105, 111, 110, 115>>
Key_location == <<108, 111, 99, 97, 116, 105, 111, 110>>

\* {"city": {"names": NamesTokyo}, "country": {"names": NamesTokio}}
CityRecord ==
    EncMapHeader(2)
    \o EncString(Key_city) \o EncEntry(Key_names, NamesTokyo)
    \o EncString(Key_country) \o EncEntry(Key_names, NamesTokio)
\* {"names": NamesTokyo}
TopRecord == EncEntry(Key_names, NamesTokyo)
\* {"subdivisions": [{"names": NamesTokyo}]}: <<1, 4>> is the Array of one element
SubdivisionsRecord == EncEntry(Key_subdivisions, <<1, 4>> \o EncEntry(Key_names, NamesTokyo))
\* {"city": {"names": NamesEmptyJa}}
EmptyJaRecord == EncEntry(Key_city, EncEntry(Key_names, NamesEmptyJa))
\* {"location": {"city": {"names": NamesTokyo}}}
NestedRecord == EncEntry(Key_location, EncEntry(Key_city, EncEntry(Key_names, NamesTokyo)))

\* An IPv4 database of 24-bit records whose values hold names maps.
\*   0.0.0.0/1   -> CityRecord          128.0.0.0/3 -> TopRecord
\*   160.0.0.0/3 -> SubdivisionsRecord  192.0.0.0/3 -> EmptyJaRecord
\*   224.0.0.0/3 -> NestedRecord
ImageNames ==
    Node24(PointerTo(4, 0), 1)
    \o Node24(2, 3)
    \o Node24(PointerTo(4, Len(CityRecord)),
              PointerTo(4, Len(CityRecord \o TopRecord)))
    \o Node24(PointerTo(4, Len(CityRecord \o TopRecord \o SubdivisionsRecord)),
              PointerTo(4, Len(CityRecord \o TopRecord \o SubdivisionsRecord
                                 \o EmptyJaRecord)))
    \o Separator
    \o CityRecord \o TopRecord \o SubdivisionsRecord \o EmptyJaRecord \o NestedRecord
    \o MetadataSection(24, 4, 4, TRUE)

\* the images the tables below are computed over
\* The data section of ImageCycle, by offset: records that lead back to
\* themselves, and one that does not.
\*    0  pointer to offset 0             2  pointer to offset 4
\*    4  pointer to offset 2             6  {"a": pointer to offset 6}
\*   11  [pointer to offset 11]         15  {"iso": "DE"}
DataCycle ==
    EncPointer(0) \o EncPointer(4) \o EncPointer(2)
    \o EncMapHeader(1) \o EncString(<<97>>) \o EncPointer(6)
    \o <<1, 4>> \o EncPointer(11)
    \o IsoRecord(<<68, 69>>)

\* An IPv4 database of 24-bit records over DataCycle.
\*   0.0.0.0/1   -> offset 0       128.0.0.0/3 -> offset 2
\*   160.0.0.0/3 -> offset 6       192.0.0.0/3 -> offset 11
\*   224.0.0.0/3 -> offset 15
ImageCycle ==
    Node24(PointerTo(4, 0), 1)
    \o Node24(2, 3)
    \o Node24(PointerTo(4, 2), PointerTo(4, 6))
    \o Node24(PointerTo(4, 11), PointerTo(4, 15))
    \o Separator \o DataCycle
    \o MetadataSection(24, 4, 4, TRUE)

TabulatedImages == Images \cup {ImageNames, ImageCycle}

IP_1_1_1_1 == <<"1", ".", "1", ".", "1", ".", "1">>
IP_2_0_0_0 == <<"2", ".", "0", ".", "0", ".", "0">>
IP_128_0_0_1 == <<"1", "2", "8", ".", "0", ".", "0", ".", "1">>
IP_160_0_0_1 == <<"1", "6", "0", ".", "0", ".", "0", ".", "1">>
IP_192_0_0_1 == <<"1", "9", "2", ".", "0", ".", "0", ".", "1">>
IP_224_0_0_1 == <<"2", "2", "4", ".", "0", ".", "0", ".", "1">>
IP_255_255_255_255 == <<"2", "5", "5", ".", "2", "5", "5", ".", "2", "5", "5", ".", "2", "5", "5">>
\* 192.0.0.1 below ::/96, written in full
IP_V6_192_0_0_1 == <<"0", ":", "0", ":", "0", ":", "0", ":", "0", ":", "0", ":", "c", "0", "0", "0", ":", "1">>
\* an IPv6 address whose first 32 bits are those of 224.0.0.0
IP_V6_E000 == <<"e", "0", "0", "0", ":", "0", ":", "0", ":", "0", ":", "0", ":", "0", ":", "0", ":", "1">>
\* an octet above 255: not accepted by isValidIP
IP_256_1_1_1 == <<"2", "5", "6", ".", "1", ".", "1", ".", "1">>
\* three octets, two groups, the empty string: not accepted either
IP_1_1_1 == <<"1", ".", "1", ".", "1">>
IP_V6_1_2 == <<"1", ":", "2">>
IP_Empty == <<>>

\* the IPv6-capable databases a walker is constructed on
WalkImages == {ImageV6, ImageV6Short, ImageV6Deep, ImageV6Empty}

\* the 4-byte addresses walked
Addresses ==
    {<<b1, b2, 0, 1>> : b1 \in {0, 1, 2, 64, 128, 160, 192, 224, 255},
                        b2 \in {0, 1, 128, 255}}

Ips == {IP_1_1_1_1, IP_2_0_0_0, IP_128_0_0_1, IP_160_0_0_1, IP_192_0_0_1,
        IP_224_0_0_1, IP_255_255_255_255, IP_V6_192_0_0_1, IP_V6_E000,
        IP_256_1_1_1, IP_1_1_1, IP_V6_1_2, IP_Empty}

(***************************************************************************)
(* The functions of the reader that depend on the image or the address     *)
(* alone, tabulated over the images and the addresses of the model: each   *)
(* value is computed once, and the facade below looks it up.               *)
(***************************************************************************)
\* MMDBMetadataParser.parse(data)
Parsed == [data \in TabulatedImages |-> parse(data)]

\* the <<argument, value>> of the calls tabulated in f that returned a value
Returned(f) == {<<x, f[x].value>> : x \in {y \in DOMAIN f : f[y].ok}}

\* what the calls tabulated in f gave
Results(f) == {f[x] : x \in DOMAIN f}

\* the (data, metadata) a walker is constructed from
WalkerArgs == Returned(Parsed)

\* new MMDBWalker(data, metadata)
NewWalkers == [args \in WalkerArgs |-> NewWalker(args[1], args[2])]

Walkers == {made[2] : made \in Returned(NewWalkers)}

\* isValidIP(ip) and ipToBytes(ip)
ValidIp == [ip \in Ips |-> isValidIP(ip)]
IpBytes == [ip \in Ips |-> ipToBytes(ip)]

\* address bytes taken without isValidIP and ipToBytes having accepted the
\* string: the octets as parseInt reads them
ParseIp_Unchecked(ip) == IF ValidIp[ip] THEN IpBytes[ip] ELSE ipv4ToBytes(ip)

\* the address bytes getWithPrefixLength walks for a query string, <<>>
\* for none (ipBytes stays null): ipToBytes is called on a string isValidIP
\* accepts
ParseIp(ip) == IF ValidIp[ip] THEN IpBytes[ip] ELSE <<>>

\* the address bytes of the query strings that have some
AddressBytes == {ParseIp(ip) : ip \in Ips} \ {<<>>}

WalkArgs == {<<w, ipBytes>> : w \in Walkers, ipBytes \in AddressBytes}

\* walker.walk(ipBytes)
Walked == [args \in WalkArgs |-> walk(args[1], args[2])]

DATA_SECTION_SEPARATOR_SIZE == 16

\* the decoders load() constructs, and the offsets the lookups decode at
Decoders ==
    {NewDecoder(args[1], args[2].searchTreeSize.v + DATA_SECTION_SEPARATOR_SIZE) :
        args \in {a \in WalkerArgs : a[2].searchTreeSize.t = "num"}}

\* an offset counted from the start of the image without the search tree
DataOffsetOf_NoTree(record, metadata) ==
    IF metadata.nodeCount.t = "num" THEN record - metadata.nodeCount.v ELSE NaNOffset

\* record - nodeCount + searchTreeSize
DataOffsetOf(record, metadata) ==
    IF metadata.nodeCount.t = "num" /\ metadata.searchTreeSize.t = "num"
    THEN record - metadata.nodeCount.v + metadata.searchTreeSize.v
    ELSE NaNOffset

DataOffsets ==
    {DataOffsetOf(walked.record.v, args[2]) :
        walked \in {r \in Results(Walked) : r.record # Null}, args \in WalkerArgs}

\* the (decoder, offset) of the decodeFast calls
DecodeArgs == {<<d, offset>> : d \in Decoders, offset \in DataOffsets}

\* decoder.decodeFast(offset)
Decoded == [args \in DecodeArgs |-> decodeFast(args[1], args[2])]

(***************************************************************************)
(* MMDBParser, the facade: [data, metadata, walker, decoder, cache,       *)
(* options].                                                               *)
(***************************************************************************)
DefaultCacheSize == 1000

\* new MMDBParser(options), options with both fields given
NewParser(options) ==
    [data |-> <<>>,
     metadata |-> Null,
     walker |-> Null,
     decoder |-> Null,
     cache |-> IF options.enableCache /\ options.cacheSize # 0 /\ options.cacheSize > 0
               THEN NewCache(options.cacheSize) ELSE Null,
     options |-> options]

\* isValid(): this.data is always an array, which is truthy
isValid(p) == p.metadata # Null /\ p.walker # Null /\ p.decoder # Null

\* load(data): the facade afterwards, and whether the call threw.  Each
\* field is assigned where the code assigns it, so a throw keeps the
\* assignments made before it.
\* the last statements of load: this.walker = w, this.decoder = new MMDBDecoder(...)
loadWalker(p2, w) ==
    IF ~w.ok THEN [self |-> p2, threw |-> TRUE, error |-> w.error]
    ELSE [self |-> [p2 EXCEPT
                      !.walker = w.value,
                      !.decoder = NewDecoder(p2.data,
                                             p2.metadata.searchTreeSize.v
                                                + DATA_SECTION_SEPARATOR_SIZE)],
          threw |-> FALSE, error |-> ""]

\* load from the validation of this.metadata on
loadValidated(p2) ==
    IF p2.metadata = Null \/ ~validate(p2.metadata)
    THEN [self |-> p2, threw |-> TRUE, error |-> "Invalid MMDB metadata"]
    ELSE loadWalker(p2, NewWalkers[<<p2.data, p2.metadata>>])

\* load from the assignment of this.metadata on, parsed what parse(data) gave
loadParsed(p1, parsed) ==
    IF ~parsed.ok THEN [self |-> p1, threw |-> TRUE, error |-> parsed.error]
    ELSE loadValidated([p1 EXCEPT !.metadata = parsed.value])

load(p, data) == loadParsed([p EXCEPT !.data = data], Parsed[data])

\* a cache key that leaves the query string out
CacheKey_Shared(ip) == <<":", "f", "u", "l", "l">>

\* the cache key of a query string: `${ip}:full`
CacheKey(ip) == ip \o <<":", "f", "u", "l", "l">>

\* what one call of getWithPrefixLength gives: `via` names the return
\* statement taken, or is "thrown" when the code ended by throwing
Outcome(p, data, prefixLength, via) ==
    [self |-> p, data |-> data, prefixLength |-> prefixLength, via |-> via]

\* the try block of getWithPrefixLength, entered on a cache miss
\* the try block once decodeFast(dataOffset) has given decoded
tryDecoded(p, ip, prefixLength, decoded) ==
    IF ~decoded.ok THEN Outcome(p, Null, 0, "thrown")
    ELSE Outcome(IF p.cache # Null /\ Truthy(decoded.value)
                 THEN [p EXCEPT !.cache = CacheSet(p.cache, CacheKey(ip), decoded.value)]
                 ELSE p,
                 decoded.value, prefixLength, "found")

\* the try block once walk(ipBytes) has given walked
tryWalked(p, ip, walked) ==
    IF ~Truthy(walked.record)
       \/ ~(p.metadata.nodeCount.t = "num"
            /\ isDataPointer(walked.record.v, p.metadata.nodeCount.v))
    THEN Outcome(p, Null, walked.prefixLength, "nopointer")
    ELSE tryDecoded(p, ip, walked.prefixLength,
                    Decoded[<<p.decoder, DataOffsetOf(walked.record.v, p.metadata)>>])

\* the try block once ipBytes is assigned
tryBytes(p, ip, ipBytes) ==
    IF ipBytes = <<>> THEN Outcome(p, Null, 0, "invalid")
    ELSE tryWalked(p, ip, Walked[<<p.walker, ipBytes>>])

TryBlock(p, ip) == tryBytes(p, ip, ParseIp(ip))

\* no catch clause: what the try block threw leaves the call
CatchBlock_Rethrow(p, tried) == tried

\* the catch clause of getWithPrefixLength
CatchBlock(p, tried) ==
    IF tried.via = "thrown" THEN Outcome(p, Null, 0, "caught") ELSE tried

\* getWithPrefixLength(ip)
getWithPrefixLength(p, ip) ==
    IF ~isValid(p) THEN Outcome(p, Null, 0, "unloaded")
    ELSE LET got == IF p.cache # Null THEN CacheGet(p.cache, CacheKey(ip))
                    ELSE [self |-> Null, value |-> Undefined]
             p0 == IF p.cache # Null THEN [p EXCEPT !.cache = got.self] ELSE p
         IN  IF Truthy(got.value) THEN Outcome(p0, got.value, 0, "hit")
             ELSE CatchBlock(p0, TryBlock(p0, ip))

\* clearCache()
clearCache(p) ==
    IF p.cache # Null THEN [p EXCEPT !.cache = CacheClear(p.cache)] ELSE p

\* getCacheStats(): null without a cache, else {size, maxSize}
getCacheStats(p) ==
    IF p.cache = Null THEN Null
    ELSE [size |-> Len(p.cache.cache), maxSize |-> p.cache.maxSize]

\* typeof x === "object" of a truthy x: a map, an array or a Uint8Array
IsObject(x) == x.t \in {"obj", "arr", "bytes"}

\* Object.entries(x): the own properties of a map in insertion order (none
\* of the keys here is an array index), the elements of an array, of a
\* Uint8Array or of a string under their indices, nothing of a primitive
Entries(x) ==
    CASE x.t = "obj" -> x.v
      [] x.t = "arr" ->
           <<>> \o [i \in 1..Len(x.v) |-> [k |-> PropertyKey(Num(i - 1)), v |-> x.v[i]]]
      [] x.t = "bytes" ->
           <<>> \o [i \in 1..Len(x.v) |-> [k |-> PropertyKey(Num(i - 1)), v |-> Num(x.v[i])]]
      [] x.t = "str" ->
           <<>> \o [i \in 1..Len(x.v) |-> [k |-> PropertyKey(Num(i - 1)), v |-> Str(<<x.v[i]>>)]]
      [] OTHER -> <<>>

\* "names" in value, of an object value
HasNames(value) == value.t = "obj" /\ \E i \in 1..Len(value.v) : value.v[i].k = Key_names

\* Object.values(names)[0]
FirstValue(names) == IF Entries(names) = <<>> THEN Undefined ELSE Entries(names)[1].v

\* names[language] || names.en || Object.values(names)[0], of names that
\* are neither null nor undefined; language is no index and not "length"
NameOf(names, language) ==
    OrElse(OrElse(GetProperty(names, language), GetProperty(names, Key_en)),
           FirstValue(names))

\* the value extractLanguageData stores under an entry's key
LanguageEntry(value, language) ==
    IF Truthy(value) /\ IsObject(value) /\ HasNames(value)
    THEN Obj(SetProperty(value.v, Key_name,
                         NameOf(GetProperty(value, Key_names), language)))
    ELSE value

\* whether reading names[language] throws a TypeError: names is null
NamesThrow(value) ==
    /\ Truthy(value) /\ IsObject(value) /\ HasNames(value)
    /\ GetProperty(value, Key_names).t \in {"null", "undefined"}

\* extractLanguageData(data, language): [ok, value], or what it throws
extractLanguageData(data, language) ==
    IF ~Truthy(data) \/ ~IsObject(data) THEN [ok |-> TRUE, value |-> data]
    ELSE IF \E i \in 1..Len(Entries(data)) : NamesThrow(Entries(data)[i].v)
    THEN Throw("TypeError")
    ELSE [ok |-> TRUE,
          value |-> Obj(<<>> \o [i \in 1..Len(Entries(data)) |->
                                   [k |-> Entries(data)[i].k,
                                    v |-> LanguageEntry(Entries(data)[i].v, language)]])]

\* a getWithLanguage that writes the name fields into the object it was given
withLanguage_InPlace(got, language) ==
    IF ~Truthy(got.data) THEN [self |-> got.self, ok |-> TRUE, value |-> Null]
    ELSE LET extracted == extractLanguageData(got.data, language)
         IN  [self |-> IF extracted.ok /\ got.self.cache # Null
                          /\ CacheHas(got.self.cache, got.self.cache.cache[Len(got.self.cache.cache)].k)
                       THEN [got.self EXCEPT !.cache.cache[Len(got.self.cache.cache)].v
                                                 = extracted.value]
                       ELSE got.self] @@ extracted

\* getWithLanguage once get(ip) has given got: [self, ok, value]
withLanguage(got, language) ==
    IF ~Truthy(got.data) THEN [self |-> got.self, ok |-> TRUE, value |-> Null]
    ELSE [self |-> got.self] @@ extractLanguageData(got.data, language)

\* getWithLanguage(ip, language); get(ip) is getWithPrefixLength(ip).data
getWithLanguage(p, ip, language) == withLanguage(getWithPrefixLength(p, ip), language)

(***************************************************************************)
(* The state: a facade constructed with caching enabled (`parser`), a      *)
(* facade constructed with enableCache: false (`plain`) that is given the  *)
(* same calls, and what the last call on each returned.                    *)
(***************************************************************************)
VARIABLES
    parser,      \* the MMDBParser with caching enabled
    plain,       \* the MMDBParser with caching disabled
    result,      \* the last call on parser: [op, ip, threw, data, prefixLength, via]
    plainResult, \* the same for plain
    everLoaded,  \* whether a load() call has returned without throwing
    found,       \* the ips for which parser found and cached a value since the last load()
    treeWalker,  \* an MMDBWalker constructed on its own, Null in the facade's runs
    lastWalk,    \* the last address walked on treeWalker, and what the walks gave
    lastCall     \* the last call of a function of the reader made on its own: its
                 \* arguments and what it gave

vars == <<parser, plain, result, plainResult, everLoaded, found, treeWalker, lastWalk,
         lastCall>>

NoResult == [op |-> "none", ip |-> <<>>, threw |-> FALSE, data |-> Null,
             prefixLength |-> 0, via |-> "none"]

NoWalk == [op |-> "none", address |-> <<>>,
           short |-> [record |-> Null, prefixLength |-> 0],
           long |-> [record |-> Null, prefixLength |-> 0]]

NoCall == [op |-> "none"]

Init ==
    /\ \E n \in 1..MaxCacheSize :
          parser = NewParser([cacheSize |-> n, enableCache |-> TRUE])
    /\ plain = NewParser([cacheSize |-> DefaultCacheSize, enableCache |-> FALSE])
    /\ result = NoResult
    /\ plainResult = NoResult
    /\ everLoaded = FALSE
    /\ found = {}
    /\ treeWalker = Null
    /\ lastWalk = NoWalk
    /\ lastCall = NoCall

LoadResult(r) ==
    [op |-> "load", ip |-> <<>>, threw |-> r.threw, data |-> Null,
     prefixLength |-> 0, via |-> IF r.threw THEN "thrown" ELSE "loaded"]

\* the state once the two load calls have given loaded and loadedPlain
Loaded(loaded, loadedPlain) ==
    /\ parser' = loaded.self
    /\ plain' = loadedPlain.self
    /\ result' = LoadResult(loaded)
    /\ plainResult' = LoadResult(loadedPlain)
    /\ everLoaded' = (everLoaded \/ ~loaded.threw)
    /\ found' = {}

\* parser.load(image) and plain.load(image)
Load(image) ==
    /\ Loaded(load(parser, image), load(plain, image))
    /\ UNCHANGED <<treeWalker, lastWalk, lastCall>>

GetResult(ip, r) ==
    [op |-> "get", ip |-> ip, threw |-> r.via = "thrown", data |-> r.data,
     prefixLength |-> r.prefixLength, via |-> r.via]

\* the state once the two getWithPrefixLength calls have given got and gotPlain
Got(ip, got, gotPlain) ==
    /\ parser' = got.self
    /\ plain' = gotPlain.self
    /\ result' = GetResult(ip, got)
    /\ plainResult' = GetResult(ip, gotPlain)
    /\ found' = IF got.via = "found" /\ got.self.cache # Null
                   /\ CacheHas(got.self.cache, CacheKey(ip))
                THEN found \cup {ip} ELSE found

\* parser.getWithPrefixLength(ip) and plain.getWithPrefixLength(ip)
GetWithPrefixLength(ip) ==
    /\ Got(ip, getWithPrefixLength(parser, ip), getWithPrefixLength(plain, ip))
    /\ UNCHANGED <<everLoaded, treeWalker, lastWalk, lastCall>>

\* parser.clearCache() and plain.clearCache()
ClearCache ==
    /\ parser' = clearCache(parser)
    /\ plain' = clearCache(plain)
    /\ result' = [NoResult EXCEPT !.op = "clear", !.via = "cleared"]
    /\ plainResult' = [NoResult EXCEPT !.op = "clear", !.via = "cleared"]
    /\ UNCHANGED <<everLoaded, found, treeWalker, lastWalk, lastCall>>

Next ==
    \/ \E image \in Images : Load(image)
    \/ \E ip \in Ips : GetWithPrefixLength(ip)
    \/ ClearCache

Spec == Init /\ [][Next]_vars

(***************************************************************************)
(* The walker on its own: an MMDBWalker constructed on an IPv6-capable     *)
(* database, walked with a 4-byte address and with the 16-byte address     *)
(* that has 96 zero bits before it.                                        *)
(***************************************************************************)
\* twelve zero bytes and the four bytes of address
Mapped(address) == <<0, 0, 0, 0, 0, 0, 0, 0, 0, 0, 0, 0>> \o address

WalkInit ==
    /\ parser = NewParser([cacheSize |-> DefaultCacheSize, enableCache |-> TRUE])
    /\ plain = NewParser([cacheSize |-> DefaultCacheSize, enableCache |-> FALSE])
    /\ result = NoResult
    /\ plainResult = NoResult
    /\ everLoaded = FALSE
    /\ found = {}
    /\ \E image \in WalkImages :
          treeWalker = NewWalker(image, parse(image).value).value
    /\ lastWalk = NoWalk
    /\ lastCall = NoCall

\* treeWalker.walk(address) and treeWalker.walk(Mapped(address))
Walk(address) ==
    /\ lastWalk' = [op |-> "walk", address |-> address,
                    short |-> walk(treeWalker, address),
                    long |-> walk(treeWalker, Mapped(address))]
    /\ UNCHANGED <<parser, plain, result, plainResult, everLoaded, found, treeWalker,
                   lastCall>>

WalkNext == \E address \in Addresses : Walk(address)

WalkSpec == WalkInit /\ [][WalkNext]_vars

(***************************************************************************)
(* walk on its own, over trees of the three record sizes and over         *)
(* addresses of 4 and of 16 bytes, those that begin with a 1 bit included. *)
(***************************************************************************)
TreeImages == WalkImages \cup {ImageV4, ImageV6Wide}

TreeAddresses ==
    Addresses \cup {Mapped(address) : address \in Addresses}
    \cup {address \o <<0, 0, 0, 0, 0, 0, 0, 0, 0, 0, 0, 0>> : address \in Addresses}

TreeInit ==
    /\ parser = NewParser([cacheSize |-> DefaultCacheSize, enableCache |-> TRUE])
    /\ plain = NewParser([cacheSize |-> DefaultCacheSize, enableCache |-> FALSE])
    /\ result = NoResult
    /\ plainResult = NoResult
    /\ everLoaded = FALSE
    /\ found = {}
    /\ \E image \in TreeImages :
          treeWalker = NewWalker(image, parse(image).value).value
    /\ lastWalk = NoWalk
    /\ lastCall = NoCall

\* treeWalker.walk(ipBytes)
WalkTree(ipBytes) ==
    /\ lastCall' = [op |-> "walk", ipBytes |-> ipBytes, got |-> walk(treeWalker, ipBytes)]
    /\ UNCHANGED <<parser, plain, result, plainResult, everLoaded, found, treeWalker,
                   lastWalk>>

TreeNext == \E ipBytes \in TreeAddresses : WalkTree(ipBytes)

TreeSpec == TreeInit /\ [][TreeNext]_vars

(***************************************************************************)
(* ipdo on its own: isValidIP and ipToBytes applied to a query string, as  *)
(* getWithPrefixLength applies them before the walk.                       *)
(***************************************************************************)
\* what stands between two ":" of a query string
IpGroups == {<<>>, <<"1">>, <<"f", "f">>}

\* the strings of 2 to MaxParts parts: ":", "::", "::1", "1::", "1::ff",
\* ":::", "1:ff:1", ...
ColonStrings ==
    {Join(parts, ":") : parts \in UNION {[1..n -> IpGroups] : n \in 2..MaxParts}}

IP_V6_Full == <<"1", ":", "2", ":", "3", ":", "4", ":", "5", ":", "6", ":", "7", ":", "8">>
IP_V6_Seven == <<"1", ":", "2", ":", "3", ":", "4", ":", "5", ":", "6", ":", "7", ":", ":">>
IP_V6_Nine ==
    <<"1", ":", "2", ":", "3", ":", "4", ":", ":", "5", ":", "6", ":", "7", ":", "8", ":", "9">>

IpStrings == ColonStrings \cup Ips \cup {IP_V6_Full, IP_V6_Seven, IP_V6_Nine}

\* the facade and the walker left as constructed while a function is
\* called on its own
Standalone ==
    /\ parser = NewParser([cacheSize |-> DefaultCacheSize, enableCache |-> TRUE])
    /\ plain = NewParser([cacheSize |-> DefaultCacheSize, enableCache |-> FALSE])
    /\ result = NoResult
    /\ plainResult = NoResult
    /\ everLoaded = FALSE
    /\ found = {}
    /\ treeWalker = Null
    /\ lastWalk = NoWalk

IpInit == Standalone /\ lastCall = NoCall

\* isValidIP(ip), isIPv4(ip) and ipToBytes(ip)
IpToBytes(ip) ==
    /\ lastCall' = [op |-> "ipToBytes", ip |-> ip, valid |-> isValidIP(ip),
                    v4 |-> isIPv4(ip), bytes |-> ipToBytes(ip)]
    /\ UNCHANGED <<parser, plain, result, plainResult, everLoaded, found, treeWalker,
                   lastWalk>>

IpNext == \E ip \in IpStrings : IpToBytes(ip)

IpSpec == IpInit /\ [][IpNext]_vars

(***************************************************************************)
(* getWithLanguage on a facade loaded with ImageNames.                     *)
(***************************************************************************)
\* addresses under each record of ImageNames
LangIps == {IP_1_1_1_1, IP_2_0_0_0, IP_128_0_0_1, IP_160_0_0_1, IP_192_0_0_1,
            IP_224_0_0_1}

LangInit ==
    /\ parser = load(NewParser([cacheSize |-> MaxCacheSize, enableCache |-> TRUE]),
                     ImageNames).self
    /\ plain = NewParser([cacheSize |-> DefaultCacheSize, enableCache |-> FALSE])
    /\ result = NoResult
    /\ plainResult = NoResult
    /\ everLoaded = TRUE
    /\ found = {}
    /\ treeWalker = Null
    /\ lastWalk = NoWalk
    /\ lastCall = NoCall

\* the state once getWithLanguage(ip, language) has given r
WithLanguage(ip, language, r) ==
    /\ parser' = r.self
    /\ lastCall' = [op |-> "getWithLanguage", ip |-> ip, language |-> language,
                    threw |-> ~r.ok, value |-> IF r.ok THEN r.value ELSE Null]

\* parser.getWithLanguage(ip, language)
GetWithLanguage(ip, language) ==
    /\ WithLanguage(ip, language, getWithLanguage(parser, ip, language))
    /\ UNCHANGED <<plain, result, plainResult, everLoaded, found, treeWalker, lastWalk>>

\* the state once getWithPrefixLength(ip), called as op, has given got
Looked(op, ip, got) ==
    /\ parser' = got.self
    /\ lastCall' = [op |-> op, ip |-> ip, language |-> <<>>, threw |-> got.via = "thrown",
                    value |-> got.data, prefixLength |-> got.prefixLength]

\* parser.get(ip): getWithPrefixLength(ip).data
LangGet(ip) ==
    /\ Looked("get", ip, getWithPrefixLength(parser, ip))
    /\ UNCHANGED <<plain, result, plainResult, everLoaded, found, treeWalker, lastWalk>>

\* parser.getWithPrefixLength(ip)
LangGetWithPrefixLength(ip) ==
    /\ Looked("getWithPrefixLength", ip, getWithPrefixLength(parser, ip))
    /\ UNCHANGED <<plain, result, plainResult, everLoaded, found, treeWalker, lastWalk>>

LangNext ==
    \/ \E ip \in LangIps, language \in Languages : GetWithLanguage(ip, language)
    \/ \E ip \in LangIps : LangGet(ip)
    \/ \E ip \in LangIps : LangGetWithPrefixLength(ip)

LangSpec == LangInit /\ [][LangNext]_vars

(***************************************************************************)
(* The decoder on its own.  A value of the format is [type, ...]: utf8     *)
(* [cps, bytes], double, float and bytes [bytes], uint16, uint32, uint64    *)
(* and uint128 [digits] (the big-endian base-256 digits without leading    *)
(* zeros), int32 [n], boolean [b], map [pairs of key and value], array     *)
(* [elems].  Encode writes it the way the format prescribes.               *)
(***************************************************************************)
\* the control byte, the type byte of an extended type and the size bytes
EncHeader(type, size) ==
    LET field == IF size < 29 THEN size
                 ELSE IF size < 285 THEN 29
                 ELSE IF size < 65821 THEN 30 ELSE 31
        ext == IF size < 29 THEN <<>>
               ELSE IF size < 285 THEN <<size - 29>>
               ELSE IF size < 65821 THEN <<(size - 285) \div 256, (size - 285) % 256>>
               ELSE Bytes3(size - 65821)
    IN  (IF type > 7 THEN <<field, type - 7>> ELSE <<type * 32 + field>>) \o ext

\* the payload of the int32 n: the digits of n >= 0, the four bytes of the
\* two's complement of n < 0
Int32Payload(n) ==
    IF n >= 0
    THEN StripZeros(<<n \div 16777216, (n \div 65536) % 256, (n \div 256) % 256, n % 256>>)
    ELSE <<255 - ((-1 - n) \div 16777216), 255 - (((-1 - n) \div 65536) % 256),
           255 - (((-1 - n) \div 256) % 256), 255 - ((-1 - n) % 256)>>

RECURSIVE Encode(_)
RECURSIVE EncodeAll(_)
\* the encodings of the values of a sequence, one after the other
EncodeAll(values) ==
    IF values = <<>> THEN <<>> ELSE Encode(Head(values)) \o EncodeAll(Tail(values))

Encode(x) ==
    CASE x.type = "utf8" -> EncHeader(2, Len(x.bytes)) \o x.bytes
      [] x.type = "double" -> EncHeader(3, 8) \o x.bytes
      [] x.type = "bytes" -> EncHeader(4, Len(x.bytes)) \o x.bytes
      [] x.type = "uint16" -> EncHeader(5, Len(x.digits)) \o x.digits
      [] x.type = "uint32" -> EncHeader(6, Len(x.digits)) \o x.digits
      [] x.type = "map" ->
           EncHeader(7, Len(x.pairs))
           \o EncodeAll(<<>> \o [i \in 1..(2 * Len(x.pairs)) |->
                                   IF i % 2 = 1 THEN x.pairs[(i + 1) \div 2].key
                                   ELSE x.pairs[i \div 2].value])
      [] x.type = "int32" -> EncHeader(8, Len(Int32Payload(x.n))) \o Int32Payload(x.n)
      [] x.type = "uint64" -> EncHeader(9, Len(x.digits)) \o x.digits
      [] x.type = "uint128" -> EncHeader(10, Len(x.digits)) \o x.digits
      [] x.type = "array" -> EncHeader(11, Len(x.elems)) \o EncodeAll(x.elems)
      [] x.type = "boolean" -> EncHeader(14, IF x.b THEN 1 ELSE 0)
      [] OTHER -> EncHeader(15, 4) \o x.bytes

\* the big-endian base-256 digits of n >= 0, without leading zeros
Digits256(n) ==
    StripZeros(<<n \div 16777216, (n \div 65536) % 256, (n \div 256) % 256, n % 256>>)

RECURSIVE IsValueOf(_, _)
\* whether the JavaScript value js is the value x of the format
IsValueOf(js, x) ==
    CASE x.type = "utf8" -> js = Str(x.cps)
      [] x.type \in {"double", "float"} -> js = Float(x.bytes)
      [] x.type = "bytes" -> js = Bytes(x.bytes)
      [] x.type \in {"uint16", "uint32"} ->
           js.t = "num" /\ js.v >= 0 /\ Digits256(js.v) = x.digits
      [] x.type = "int32" -> js = Num(x.n)
      [] x.type \in {"uint64", "uint128"} -> js = Big(x.digits)
      [] x.type = "boolean" -> js = Bool(x.b)
      [] x.type = "map" ->
           /\ js.t = "obj"
           /\ Len(js.v) = Len(x.pairs)
           /\ \A i \in 1..Len(x.pairs) :
                 /\ js.v[i].k = x.pairs[i].key.cps
                 /\ IsValueOf(js.v[i].v, x.pairs[i].value)
      [] OTHER ->
           /\ js.t = "arr"
           /\ Len(js.v) = Len(x.elems)
           /\ \A i \in 1..Len(x.elems) : IsValueOf(js.v[i], x.elems[i])

Utf8(cps, bytes) == [type |-> "utf8", cps |-> cps, bytes |-> bytes]
Ascii(cps) == Utf8(cps, cps)
Uint(type, digits) == [type |-> type, digits |-> digits]
Int32(n) == [type |-> "int32", n |-> n]
Map(pairs) == [type |-> "map", pairs |-> pairs]
Array(elems) == [type |-> "array", elems |-> elems]

\* a string of 29 characters and 285 bytes: the sizes of one and of two
\* size bytes
Chars29 == <<>> \o [i \in 1..29 |-> 96 + (i % 26)]
Bytes285 == <<>> \o [i \in 1..285 |-> i % 256]

Scalars ==
    {Ascii(<<>>), Ascii(<<65, 85>>), Ascii(Chars29),
     Utf8(TokyoJa, <<230, 157, 177, 228, 186, 172>>),
     [type |-> "double", bytes |-> <<64, 9, 33, 251, 84, 68, 45, 24>>],
     [type |-> "double", bytes |-> <<0, 0, 0, 0, 0, 0, 0, 0>>],
     [type |-> "float", bytes |-> <<63, 128, 0, 0>>],
     [type |-> "bytes", bytes |-> <<>>], [type |-> "bytes", bytes |-> <<1, 2, 3>>],
     [type |-> "bytes", bytes |-> Bytes285],
     [type |-> "boolean", b |-> TRUE], [type |-> "boolean", b |-> FALSE],
     Int32(0), Int32(1), Int32(255), Int32(65536), Int32(2147483647),
     Int32(-1), Int32(-2147483647 - 1)}
    \cup {Uint("uint16", d) : d \in {<<>>, <<1>>, <<255>>, <<1, 0>>, <<255, 255>>}}
    \cup {Uint("uint32", d) : d \in {<<>>, <<255>>, <<1, 0, 0>>, <<127, 255, 255, 255>>,
                                     <<128, 0, 0, 0>>, <<255, 255, 255, 255>>}}
    \cup {Uint("uint64", d) : d \in {<<>>, <<1>>, <<255, 255, 255, 255, 255, 255, 255, 255>>}}
    \cup {Uint("uint128", d) : d \in {<<>>, <<1, 0, 0, 0, 0, 0, 0, 0, 0, 0, 0, 0, 0, 0, 0, 0>>}}

\* maps and arrays of the scalars, and a map and an array of those
Composites ==
    {Map(<<>>), Array(<<>>)}
    \cup {Map(<<[key |-> Ascii(<<105, 115, 111>>), value |-> s]>>) : s \in Scalars}
    \cup {Array(<<s, Ascii(<<65, 85>>)>>) : s \in Scalars}
    \cup {Map(<<[key |-> Ascii(<<97>>), value |-> Array(<<Int32(-1)>>)],
                [key |-> Ascii(<<98>>), value |-> Map(<<>>)]>>),
          Array(<<Array(<<>>), Map(<<[key |-> Ascii(<<97>>),
                                      value |-> Uint("uint16", <<1, 0>>)]>>)>>)}

EncodableValues == Scalars \cup Composites

\* the bytes before an encoding in the data the decoder is given
Paddings == {<<>>, <<255, 0, 255>>}

DecodeInit == Standalone /\ lastCall = NoCall

\* decodeFast(Len(padding)) on padding, the encoding of x and one more byte
DecodeEncoded(x, padding) ==
    /\ lastCall' = [op |-> "decode", original |-> x, offset |-> Len(padding),
                    end |-> Len(padding \o Encode(x)),
                    got |-> decodeFast(NewDecoder(padding \o Encode(x) \o <<255>>, 0),
                                       Len(padding))]
    /\ UNCHANGED <<parser, plain, result, plainResult, everLoaded, found, treeWalker,
                   lastWalk>>

\* decodeFast of a pointer to the encoding of x, written after the encoding,
\* and decodeFast of the encoding itself
DecodePointerTo(x, padding) ==
    /\ lastCall' = [op |-> "pointer", original |-> x,
                    offset |-> Len(padding \o Encode(x)),
                    end |-> Len(padding \o Encode(x)) + 2,
                    got |-> decodeFast(NewDecoder(padding \o Encode(x)
                                                     \o EncPointer(Len(padding)), 0),
                                       Len(padding \o Encode(x))),
                    direct |-> decodeFast(NewDecoder(padding \o Encode(x)
                                                        \o EncPointer(Len(padding)), 0),
                                          Len(padding))]
    /\ UNCHANGED <<parser, plain, result, plainResult, everLoaded, found, treeWalker,
                   lastWalk>>

DecodeNext ==
    \/ \E x \in EncodableValues, padding \in Paddings : DecodeEncoded(x, padding)
    \/ \E x \in EncodableValues, padding \in Paddings : DecodePointerTo(x, padding)

DecodeSpec == DecodeInit /\ [][DecodeNext]_vars

(***************************************************************************)
(* sizeFromCtrlByte on its own: a control byte and the three bytes after   *)
(* it.                                                                     *)
(***************************************************************************)
\* the bytes after the control byte
SizeBytes == {<<0, 0, 0>>, <<255, 255, 255>>, <<1, 2, 3>>, <<0, 255, 1>>}

\* sizeFromCtrlByte(ctrlByte, 1) on the control byte and the bytes ext
SizeFromCtrlByte(ctrlByte, ext) ==
    /\ lastCall' = [op |-> "size", ctrlByte |-> ctrlByte, ext |-> ext,
                    got |-> sizeFromCtrlByte(<<ctrlByte>> \o ext, ctrlByte, 1)]
    /\ UNCHANGED <<parser, plain, result, plainResult, everLoaded, found, treeWalker,
                   lastWalk>>

SizeNext == \E ctrlByte \in 0..255, ext \in SizeBytes : SizeFromCtrlByte(ctrlByte, ext)

SizeSpec == DecodeInit /\ [][SizeNext]_vars

(***************************************************************************)
(* The node readers on their own: a node of each record size, as node 0    *)
(* or as node 1 of the tree bytes.                                         *)
(***************************************************************************)
\* the halves a node is put together from
HalfNodes ==
    {<<0, 0, 0, 0>>, <<0, 0, 0, 1>>, <<1, 2, 3, 4>>, <<1, 2, 3, 165>>, <<0, 0, 0, 240>>,
     <<0, 0, 0, 15>>, <<255, 0, 255, 16>>, <<127, 255, 255, 255>>, <<128, 0, 0, 0>>,
     <<255, 255, 255, 255>>}

\* the first recordSize * 2 / 8 bytes of the two halves
NodeOf(recordSize, first, second) == SubSeq(first \o second, 1, (recordSize * 2) \div 8)

\* the tree bytes with the node as node nodeNumber, after a node of bytes 90
TreeOf(nodeNumber, node) ==
    IF nodeNumber = 0 THEN node ELSE [i \in 1..Len(node) |-> 90] \o node

\* the state once the readers have given left and right
NodeRead(recordSize, node, left, right) ==
    lastCall' = [op |-> "readNode", recordSize |-> recordSize, node |-> node,
                 left |-> left, right |-> right]

\* createNodeReaders(data, recordSize), then left(offset) and right(offset)
\* at the offset of node nodeNumber
ReadNode(recordSize, nodeNumber, node) ==
    /\ NodeRead(recordSize, node,
                ReadLeft(TreeOf(nodeNumber, node), recordSize, nodeNumber * Len(node)),
                ReadRight(TreeOf(nodeNumber, node), recordSize, nodeNumber * Len(node)))
    /\ UNCHANGED <<parser, plain, result, plainResult, everLoaded, found, treeWalker,
                   lastWalk>>

ReadNext ==
    \E recordSize \in SupportedRecordSizes, nodeNumber \in {0, 1},
       first \in HalfNodes, second \in HalfNodes :
        ReadNode(recordSize, nodeNumber, NodeOf(recordSize, first, second))

ReadSpec == DecodeInit /\ [][ReadNext]_vars

(***************************************************************************)
(* decodePointer on its own: a pointer's control byte, the four bytes      *)
(* after it, and a decoder of base offset baseOffset on these five bytes   *)
(* and the bytes of PointerTail.                                           *)
(***************************************************************************)
\* the four bytes after the control byte
PointerBytes ==
    {<<0, 0, 0, 0>>, <<0, 0, 1, 2>>, <<1, 2, 3, 4>>, <<11, 0, 0, 0>>, <<0, 0, 0, 5>>,
     <<127, 255, 255, 0>>, <<128, 0, 0, 0>>, <<255, 255, 255, 255>>}

\* the bytes from offset 5 on: "DE" at 5, the Uint16 7 at 16
PointerTail == EncString(<<68, 69>>) \o <<0, 0, 0, 0, 0, 0, 0, 0>> \o <<161, 7>>

BaseOffsets == {0, 5, 16}

\* the calls once the decoder d is constructed
PointerDecoded(d, ctrlByte, ext, pointed) ==
    lastCall' = [op |-> "decodePointer", ctrlByte |-> ctrlByte, ext |-> ext,
                 baseOffset |-> d.baseOffset,
                 got |-> pointed,
                 whole |-> decodeFast(d, 0),
                 target |-> decodeFast(d, pointed.value)]

\* decodePointer(ctrlByte, 1), decodeFast(0) and decodeFast of the offset
\* decodePointer gave
DecodePointer(ctrlByte, ext, baseOffset) ==
    /\ PointerDecoded(NewDecoder(<<ctrlByte>> \o ext \o PointerTail, baseOffset),
                      ctrlByte, ext,
                      decodePointer(NewDecoder(<<ctrlByte>> \o ext \o PointerTail,
                                               baseOffset), ctrlByte, 1))
    /\ UNCHANGED <<parser, plain, result, plainResult, everLoaded, found, treeWalker,
                   lastWalk>>

PointerNext ==
    \E ctrlByte \in 32..63, ext \in PointerBytes, baseOffset \in BaseOffsets :
        DecodePointer(ctrlByte, ext, baseOffset)

PointerSpec == DecodeInit /\ [][PointerNext]_vars

(***************************************************************************)
(* The decoder on an image that ends before the value does: the encoding   *)
(* of a value without its last bytes.                                      *)
(***************************************************************************)
\* how many bytes are missing at the end
Cuts == {1, 2}

\* decodeFast(0) on the encoding of x without its last cut bytes
DecodeTruncated(x, cut) ==
    /\ Len(Encode(x)) >= cut
    /\ lastCall' = [op |-> "truncated", original |-> x, cut |-> cut,
                    length |-> Len(Encode(x)) - cut,
                    got |-> decodeFast(NewDecoder(SubSeq(Encode(x), 1, Len(Encode(x)) - cut),
                                                  0), 0)]
    /\ UNCHANGED <<parser, plain, result, plainResult, everLoaded, found, treeWalker,
                   lastWalk>>

TruncNext == \E x \in EncodableValues, cut \in Cuts : DecodeTruncated(x, cut)

TruncSpec == DecodeInit /\ [][TruncNext]_vars

(***************************************************************************)
(* The decoder on a Uint32 of each size and on a pointer of size class 3.  *)
(***************************************************************************)
PayloadBytes == {0, 127, 128, 255}

\* the payloads of 0..4 bytes
Payloads ==
    {<<>>} \cup {<<a>> : a \in PayloadBytes}
    \cup {<<a, b>> : a \in PayloadBytes, b \in PayloadBytes}
    \cup {<<a, b, c>> : a \in PayloadBytes, b \in PayloadBytes, c \in PayloadBytes}
    \cup {<<a, b, c, e>> : a \in PayloadBytes, b \in PayloadBytes, c \in PayloadBytes,
                           e \in PayloadBytes}

\* decodeFast(0) on the control byte of a Uint32 of Len(payload) bytes, the
\* payload and one more byte
DecodeUint32(payload) ==
    /\ lastCall' = [op |-> "uint32", payload |-> payload,
                    got |-> decodeFast(NewDecoder(<<192 + Len(payload)>> \o payload
                                                     \o <<255>>, 0), 0)]
    /\ UNCHANGED <<parser, plain, result, plainResult, everLoaded, found, treeWalker,
                   lastWalk>>

\* decodePointer(0x38, 1) on a pointer of size class 3 with these four bytes,
\* base offset 0
DecodePacked(payload) ==
    /\ Len(payload) = 4
    /\ lastCall' = [op |-> "packed", payload |-> payload,
                    got |-> decodePointer(NewDecoder(<<56>> \o payload, 0), 56, 1)]
    /\ UNCHANGED <<parser, plain, result, plainResult, everLoaded, found, treeWalker,
                   lastWalk>>

Uint32Next ==
    \/ \E payload \in Payloads : DecodeUint32(payload)
    \/ \E payload \in Payloads : DecodePacked(payload)

Uint32Spec == DecodeInit /\ [][Uint32Next]_vars

(***************************************************************************)
(* The decoder on an Int32 of each size.                                   *)
(***************************************************************************)
\* decodeFast(0) on the control byte and the type byte of an Int32 of
\* Len(payload) bytes, the payload and one more byte
DecodeInt32(payload) ==
    /\ lastCall' = [op |-> "int32", payload |-> payload,
                    got |-> decodeFast(NewDecoder(<<Len(payload), 1>> \o payload
                                                     \o <<255>>, 0), 0)]
    /\ UNCHANGED <<parser, plain, result, plainResult, everLoaded, found, treeWalker,
                   lastWalk>>

Int32Next == \E payload \in Payloads : DecodeInt32(payload)

Int32Spec == DecodeInit /\ [][Int32Next]_vars

(***************************************************************************)
(* MMDBMetadataParser.parse on its own: images put together from what      *)
(* stands before the last marker, a metadata map and what stands after it, *)
(* and images without the marker.                                          *)
(***************************************************************************)
\* the metadata map with node_count given as value
MetadataMap(recordSize, nodeCountItem, ipVersion) ==
    EncMapHeader(5)
    \o EncString(Key_binary_format_major_version) \o EncUint16(2)
    \o EncString(Key_database_type) \o EncString(<<84>>)
    \o EncString(Key_ip_version) \o EncUint16(ipVersion)
    \o EncString(Key_node_count) \o nodeCountItem
    \o EncString(Key_record_size) \o EncUint16(recordSize)

\* the marker and a metadata map whose node_count is a pointer to the
\* Uint32 written behind the map: the pointer counts from the byte after
\* the marker
PointedSection(recordSize, nodeCount, ipVersion) ==
    METADATA_START_MARKER
    \o MetadataMap(recordSize,
                   EncPointer(Len(MetadataMap(recordSize, EncPointer(0), ipVersion))),
                   ipVersion)
    \o EncUint32(nodeCount)

\* what stands before the last marker: nothing, bytes without a marker, a
\* tree, a marker with a metadata map of its own, a marker alone, a marker
\* without its last byte
Prefixes ==
    {<<>>, <<1, 2, 3>>, Node24(1, 1) \o Separator, MetadataSection(28, 200, 4, TRUE),
     METADATA_START_MARKER, SubSeq(METADATA_START_MARKER, 1, 13)}

\* what stands behind the metadata value
Suffixes == {<<>>, <<0, 255>>}

\* images without the marker
UnmarkedImages ==
    {<<>>, <<1, 2, 3>>, SubSeq(METADATA_START_MARKER, 1, 13),
     SubSeq(METADATA_START_MARKER, 1, 13) \o MetadataMap(24, EncUint32(1), 4),
     SubSeq(METADATA_START_MARKER, 2, 14) \o MetadataMap(24, EncUint32(1), 4),
     <<171, 205, 239, 77, 97, 120, 77, 105, 110, 100, 46, 99, 111, 110>>
         \o MetadataMap(24, EncUint32(1), 4)}

\* MMDBMetadataParser.parse(prefix, the marker, the metadata map, suffix)
Parse(prefix, recordSize, nodeCount, ipVersion, pointed, suffix) ==
    /\ lastCall' = [op |-> "parse", prefix |-> prefix, recordSize |-> recordSize,
                    nodeCount |-> nodeCount, ipVersion |-> ipVersion,
                    pointed |-> pointed, suffix |-> suffix,
                    got |-> parse(prefix
                                  \o (IF pointed
                                      THEN PointedSection(recordSize, nodeCount, ipVersion)
                                      ELSE MetadataSection(recordSize, nodeCount, ipVersion,
                                                           TRUE))
                                  \o suffix)]
    /\ UNCHANGED <<parser, plain, result, plainResult, everLoaded, found, treeWalker,
                   lastWalk>>

\* MMDBMetadataParser.parse(data) on an image without the marker
ParseUnmarked(data) ==
    /\ lastCall' = [op |-> "parseUnmarked", data |-> data, got |-> parse(data)]
    /\ UNCHANGED <<parser, plain, result, plainResult, everLoaded, found, treeWalker,
                   lastWalk>>

ParseNext ==
    \/ \E prefix \in Prefixes, recordSize \in SupportedRecordSizes,
          nodeCount \in {5, 200}, ipVersion \in {4, 6}, pointed \in BOOLEAN,
          suffix \in Suffixes :
           Parse(prefix, recordSize, nodeCount, ipVersion, pointed, suffix)
    \/ \E data \in UnmarkedImages : ParseUnmarked(data)

ParseSpec == DecodeInit /\ [][ParseNext]_vars

(***************************************************************************)
(* LRUCache on its own.  lastCall holds the call, the cache before and     *)
(* after it, and `recent`: the keys in the order of their last use, the    *)
(* hit of a get or a set, the most recent one last.                        *)
(***************************************************************************)
CacheKeys == {<<"a">>, <<"b">>, <<"c">>, <<"d">>}
CacheValues == {Num(1), Num(2)}

\* the keys after key has been used
Touch(recent, key) == SelectSeq(recent, LAMBDA k : k # key) \o <<key>>

LruInit ==
    /\ Standalone
    /\ \E n \in 1..MaxCacheSize :
          lastCall = [op |-> "new", key |-> <<>>, before |-> NewCache(n),
                      after |-> NewCache(n), recentBefore |-> <<>>, recent |-> <<>>]

\* the state once cache.get(key) has given got
LruGot(key, got) ==
    lastCall' = [op |-> "get", key |-> key, before |-> lastCall.after,
                 after |-> got.self, recentBefore |-> lastCall.recent,
                 recent |-> IF got.value # Undefined THEN Touch(lastCall.recent, key)
                            ELSE lastCall.recent]

\* cache.get(key)
LruGet(key) ==
    /\ LruGot(key, CacheGet(lastCall.after, key))
    /\ UNCHANGED <<parser, plain, result, plainResult, everLoaded, found, treeWalker,
                   lastWalk>>

\* cache.set(key, value)
LruSet(key, value) ==
    /\ lastCall' = [op |-> "set", key |-> key, before |-> lastCall.after,
                    after |-> CacheSet(lastCall.after, key, value),
                    recentBefore |-> lastCall.recent,
                    recent |-> Touch(lastCall.recent, key)]
    /\ UNCHANGED <<parser, plain, result, plainResult, everLoaded, found, treeWalker,
                   lastWalk>>

LruNext ==
    \/ \E key \in CacheKeys : LruGet(key)
    \/ \E key \in CacheKeys, value \in CacheValues : LruSet(key, value)

LruSpec == LruInit /\ [][LruNext]_vars

(***************************************************************************)
(* A facade loaded with ImageCycle: lookups, and decodeFast of its decoder *)
(* at every offset of the image and at the first offset beyond it.         *)
(***************************************************************************)
CycleInit ==
    /\ parser = load(NewParser([cacheSize |-> MaxCacheSize, enableCache |-> TRUE]),
                     ImageCycle).self
    /\ plain = NewParser([cacheSize |-> DefaultCacheSize, enableCache |-> FALSE])
    /\ result = NoResult
    /\ plainResult = NoResult
    /\ everLoaded = TRUE
    /\ found = {}
    /\ treeWalker = Null
    /\ lastWalk = NoWalk
    /\ lastCall = NoCall

\* parser.decoder.decodeFast(offset)
DecodeFast(offset) ==
    /\ lastCall' = [op |-> "decodeFast", offset |-> offset,
                    got |-> decodeFast(parser.decoder, offset)]
    /\ UNCHANGED <<parser, plain, result, plainResult, everLoaded, found, treeWalker,
                   lastWalk>>

CycleNext ==
    \/ \E ip \in LangIps : LangGetWithPrefixLength(ip)
    \/ \E offset \in 0..Len(ImageCycle) : DecodeFast(offset)

CycleSpec == CycleInit /\ [][CycleNext]_vars

(***************************************************************************)
(* Properties of the facade (Spec) and of the walker (WalkSpec).           *)
(***************************************************************************)
\* whether the Map of p's cache holds an entry for the query string ip
Cached(p, ip) ==
    /\ p.cache # Null
    /\ \E i \in 1..Len(p.cache.cache) : p.cache.cache[i].k = CacheKey(ip)

\* the value of that entry
CachedValue(p, ip) ==
    p.cache.cache[CHOOSE i \in 1..Len(p.cache.cache) : p.cache.cache[i].k = CacheKey(ip)].v

\* where the loop of walk(ipBytes) ends: <<final value, bits consumed>>
WalkEnds == [args \in WalkArgs |-> WalkFrom(args[1], args[2], StartNode(args[1], args[2]), 0)]

\* where the loop of p's walker ends for the accepted string ip
WalkEnd(p, ip) == WalkEnds[<<p.walker, IpBytes[ip]>>]

\* whether the walk for ip ends on a value the facade takes for a data pointer
EndsOnPointer(p, ip) ==
    /\ WalkEnd(p, ip)[1] > p.walker.metadata.nodeCount.v
    /\ p.metadata.nodeCount.t = "num"
    /\ WalkEnd(p, ip)[1] > p.metadata.nodeCount.v

\* the decoding at record - nodeCount + searchTreeSize of that pointer
DecodedAtEnd(p, ip) ==
    decodeFast(p.decoder,
               WalkEnd(p, ip)[1] - p.metadata.nodeCount.v + p.metadata.searchTreeSize.v)

\* {"iso": "AU"}, the data of 1.0.0.0/8 in ImageV4
IsoAU == Obj(<<[k |-> <<105, 115, 111>>, v |-> Str(<<65, 85>>)]>>)

C2_PrefixLengthIsBitsWalked ==
    isValid(parser) =>
        \A ip \in Ips :
            (ValidIp[ip] /\ ~Cached(parser, ip)) =>
                getWithPrefixLength(parser, ip).prefixLength = WalkEnd(parser, ip)[2]

\* C3: while the cache holds the entry of a found value, a lookup of its
\* address returns the entry's value with prefixLength 0; once the entry of
\* an address found since the last load is gone (evicted or cleared), the
\* lookup finds the value again and returns the bits walked
C3_HitReturnsZero ==
    isValid(parser) =>
        \A ip \in Ips :
            LET r == getWithPrefixLength(parser, ip)
            IN  /\ Cached(parser, ip) =>
                      /\ r.data = CachedValue(parser, ip)
                      /\ r.prefixLength = 0
                /\ (ip \in found /\ ~Cached(parser, ip)) =>
                      /\ r.via = "found"
                      /\ r.prefixLength = WalkEnd(parser, ip)[2]
                      /\ Cached(r.self, ip)

\* C3, witness: a lookup has been served from the cache with prefixLength
\* 0 while the entry of another found address is gone
C3_Witness ==
    /\ result.op = "get"
    /\ result.via = "hit"
    /\ result.ip \in found
    /\ result.prefixLength = 0
    /\ Truthy(result.data)
    /\ \E ip \in found : ~Cached(parser, ip)

\* whether every entry of parser's cache was inserted since the last load
Fresh ==
    parser.cache # Null =>
        \A i \in 1..Len(parser.cache.cache) :
            \E ip \in found : parser.cache.cache[i].k = CacheKey(ip)

\* C4: while the cache holds values of the current image only, the facade
\* with the cache and the facade without it return equal data for every
\* address, the last lookup returned equal data on both, and repeating it
\* returns equal data again
C4_CacheKeepsData ==
    Fresh =>
        /\ \A ip \in Ips :
              getWithPrefixLength(parser, ip).data = getWithPrefixLength(plain, ip).data
        /\ result.op = "get" =>
              /\ result.data = plainResult.data
              /\ getWithPrefixLength(parser, result.ip).data = result.data

\* C4, witness: the same lookup was a cache hit on one facade and a walk on
\* the other: equal data, different prefixLength
C4_Witness ==
    /\ Fresh
    /\ result.op = "get"
    /\ result.via = "hit"
    /\ plainResult.via = "found"
    /\ result.data = plainResult.data
    /\ result.prefixLength # plainResult.prefixLength

\* C5, as stated: after a load that threw on a facade no load has succeeded
\* on, isValid() is false, getMetadata() is null and every lookup returns
\* (null, 0)
C5_FailedLoadLeavesUnloaded ==
    (~everLoaded /\ result.op = "load" /\ result.threw) =>
        /\ ~isValid(parser)
        /\ parser.metadata = Null
        /\ \A ip \in Ips :
              /\ getWithPrefixLength(parser, ip).data = Null
              /\ getWithPrefixLength(parser, ip).prefixLength = 0

\* C6, as stated: whenever isValid() is true, databaseType, ipVersion,
\* nodeCount, recordSize and binaryFormatMajorVersion of the metadata are
\* non-zero / non-empty and recordSize is 24, 28 or 32
C6_LoadedMetadataIsValid ==
    isValid(parser) =>
        /\ Truthy(parser.metadata.databaseType)
        /\ Truthy(parser.metadata.ipVersion)
        /\ Truthy(parser.metadata.nodeCount)
        /\ Truthy(parser.metadata.recordSize)
        /\ Truthy(parser.metadata.binaryFormatMajorVersion)
        /\ parser.metadata.recordSize \in {Num(24), Num(28), Num(32)}

\* whether the lookup of ip walks to a data pointer whose decoding throws
DecodeFails(p, ip) ==
    /\ ValidIp[ip]
    /\ ~Cached(p, ip)
    /\ EndsOnPointer(p, ip)
    /\ ~DecodedAtEnd(p, ip).ok

\* C7: on a loaded facade no lookup ends by throwing; a lookup whose
\* decoding throws returns null data and leaves the facade as it was, so
\* that every other address is answered as before
C7_DecodeFailureIsContained ==
    isValid(parser) =>
        \A ip \in Ips :
            LET r == getWithPrefixLength(parser, ip)
            IN  /\ r.via # "thrown"
                /\ DecodeFails(parser, ip) =>
                      /\ r.data = Null
                      /\ r.self.cache = parser.cache
                      /\ \A other \in Ips \ {ip} :
                            LET after == getWithPrefixLength(r.self, other)
                                before == getWithPrefixLength(parser, other)
                            IN  /\ after.data = before.data
                                /\ after.prefixLength = before.prefixLength

\* C7, witness: a lookup whose decoding threw has returned null
C7_Witness ==
    /\ result.op = "get"
    /\ result.via = "caught"
    /\ ~result.threw
    /\ result.data = Null
    /\ parser.cache.cache # <<>>

RECURSIVE StaysLeft(_, _, _)
\* whether the left steps i .. 95 from pointer are all taken on nodes
StaysLeft(w, pointer, i) ==
    \/ i >= 96
    \/ /\ pointer < w.metadata.nodeCount.v
       /\ StaysLeft(w, ReadLeft(w.data, w.metadata.recordSize.v,
                                pointer * w.metadata.nodeByteSize.v), i + 1)

\* C9: on a walker of an ipVersion 6 database, the walk of a 4-byte address
\* and the walk of the 16-byte address with 96 zero bits before it give the
\* same record; when the 96 left steps from the root stay on nodes, the
\* second prefixLength is the first plus 96
C9_Ipv4StartNode ==
    (lastWalk.op = "walk" /\ treeWalker.metadata.ipVersion = Num(6)) =>
        /\ lastWalk.short.record = lastWalk.long.record
        /\ StaysLeft(treeWalker, 0, 0) =>
              lastWalk.long.prefixLength = lastWalk.short.prefixLength + 96

\* C9, witness: a 4-byte address has been walked to a data pointer below
\* the IPv4 start node, 96 left steps away from the root
C9_Witness ==
    /\ lastWalk.op = "walk"
    /\ treeWalker.metadata.ipVersion = Num(6)
    /\ StaysLeft(treeWalker, 0, 0)
    /\ treeWalker.ipv4StartNodeNumber # 0
    /\ lastWalk.short.record # Null
    /\ lastWalk.short.prefixLength > 0
    /\ lastWalk.long.prefixLength = lastWalk.short.prefixLength + 96

\* C10: when the walk of a valid address ends on a value equal to
\* nodeCount, walk gives (null, bits walked), and a lookup not served from
\* the cache gives (null, bits walked) from the return before the decoding
C10_NodeCountIsNoPointer ==
    isValid(parser) =>
        \A ip \in Ips :
            (ValidIp[ip] /\ WalkEnd(parser, ip)[1] = parser.walker.metadata.nodeCount.v) =>
                /\ Walked[<<parser.walker, IpBytes[ip]>>] =
                       [record |-> Null, prefixLength |-> WalkEnd(parser, ip)[2]]
                /\ ~Cached(parser, ip) =>
                       LET r == getWithPrefixLength(parser, ip)
                       IN  /\ r.data = Null
                           /\ r.prefixLength = WalkEnd(parser, ip)[2]
                           /\ r.via = "nopointer"
                           /\ r.self = parser

\* C10, witness: 2.0.0.0 has been looked up in the image of 28-bit
\* records, where its walk ends on nodeCount after 7 bits
C10_Witness ==
    /\ result.op = "get"
    /\ result.ip = IP_2_0_0_0
    /\ result.via = "nopointer"
    /\ result.prefixLength = 7
    /\ WalkEnd(parser, IP_2_0_0_0) = <<parser.metadata.nodeCount.v, 7>>


(***************************************************************************)
(* Properties of ipdo (IpSpec).                                            *)
(***************************************************************************)
\* C11: for every string isValidIP accepts, ipToBytes returns exactly 4
\* bytes when the string is an IPv4 address and exactly 16 bytes when it is
\* an IPv6 address, the forms with "::" included, each a byte 0..255: the
\* facade walks only 4- and 16-byte addresses.
C11_AcceptedGivesAddress ==
    (lastCall.op = "ipToBytes" /\ lastCall.valid) =>
        /\ Len(lastCall.bytes) = IF lastCall.v4 THEN 4 ELSE 16
        /\ \A i \in 1..Len(lastCall.bytes) : lastCall.bytes[i] \in 0..255

(***************************************************************************)
(* Properties of getWithLanguage (LangSpec).                               *)
(***************************************************************************)
\* whether the map x has the own property key
HasProperty(x, key) == x.t = "obj" /\ \E i \in 1..Len(x.v) : x.v[i].k = key

\* names[language] when language is present in names, otherwise names["en"]
\* when present, otherwise the first entry of names
Chosen(names, language) ==
    IF HasProperty(names, language) THEN GetProperty(names, language)
    ELSE IF HasProperty(names, Key_en) THEN GetProperty(names, Key_en)
    ELSE FirstValue(names)

\* whether x is a map with a `names` sub-map
HasNamesMap(x) == HasProperty(x, Key_names) /\ GetProperty(x, Key_names).t = "obj"

\* C12: in what getWithLanguage(ip, lang) returns, a map under a key of the
\* decoded value that has a `names` sub-map has a `name` field equal to
\* names[lang] when lang is present in names, otherwise to names["en"] when
\* present, otherwise to the first entry of names.
C12_NameIsChosen ==
    (lastCall.op = "getWithLanguage" /\ ~lastCall.threw /\ lastCall.value.t = "obj") =>
        \A i \in 1..Len(lastCall.value.v) :
            HasNamesMap(lastCall.value.v[i].v) =>
                GetProperty(lastCall.value.v[i].v, Key_name)
                    = Chosen(GetProperty(lastCall.value.v[i].v, Key_names),
                             lastCall.language)

RECURSIVE AllNamed(_)
\* whether every map with a `names` sub-map in x, x itself and the maps
\* nested in maps and arrays included, has a `name` field
AllNamed(x) ==
    CASE x.t = "obj" ->
           /\ HasNamesMap(x) => HasProperty(x, Key_name)
           /\ \A i \in 1..Len(x.v) : AllNamed(x.v[i].v)
      [] x.t = "arr" -> \A i \in 1..Len(x.v) : AllNamed(x.v[i])
      [] OTHER -> TRUE

\* C13: in what getWithLanguage returns, every map that contains a `names`
\* sub-map has a `name` field, at any nesting depth: the top-level map and
\* the maps nested inside other maps or inside arrays.
C13_EveryNamesMapIsNamed ==
    (lastCall.op = "getWithLanguage" /\ ~lastCall.threw) => AllNamed(lastCall.value)

(***************************************************************************)
(* Properties of the decoder (DecodeSpec).                                 *)
(***************************************************************************)
\* C14: decoding the encoding of a value of the format (a scalar of each
\* type over its range, a map, an array) gives the value and the offset
\* just past the encoding; decoding a pointer to the encoding gives the same
\* value as decoding at the offset pointed to.
C14_RoundTrip ==
    /\ lastCall.op \in {"decode", "pointer"} =>
          /\ lastCall.got.ok
          /\ IsValueOf(lastCall.got.value, lastCall.original)
          /\ lastCall.got.offset = lastCall.end
    /\ lastCall.op = "pointer" =>
          /\ lastCall.direct.ok
          /\ lastCall.got.value = lastCall.direct.value

\* C15: the size of a control byte is its low five bits when they are 0..28,
\* with no byte read; 29 plus the next byte when they are 29; 285 plus the
\* next two bytes, big-endian, when they are 30; 65821 plus the next three
\* bytes, big-endian, when they are 31; the offset advances by 0, 1, 2 and
\* 3.  So the sizes 0, 28, 29, 284, 285, 65820, 65821 and 65821 + 2^24 - 1
\* come out exactly.
C15_SizeField ==
    lastCall.op = "size" =>
        LET field == lastCall.ctrlByte % 32
            ext == lastCall.ext
        IN  /\ field <= 28 => lastCall.got = [offset |-> 1, value |-> field]
            /\ field = 29 => lastCall.got = [offset |-> 2, value |-> 29 + ext[1]]
            /\ field = 30 =>
                  lastCall.got = [offset |-> 3, value |-> 285 + ext[1] * 256 + ext[2]]
            /\ field = 31 =>
                  lastCall.got = [offset |-> 4,
                                  value |-> 65821 + ext[1] * 65536 + ext[2] * 256 + ext[3]]

\* a control byte with size field 31 followed by FF FF FF gave 65821 + 2^24 - 1
C15_Witness ==
    /\ lastCall.op = "size"
    /\ lastCall.ctrlByte % 32 = 31
    /\ lastCall.got = [offset |-> 4, value |-> 65821 + 16777215]

\* C16: on a facade constructed with caching enabled and cacheSize N >= 1,
\* getCacheStats() reports maxSize N and a size between 0 and N after every
\* load, lookup and clearCache, and a size of 0 right after clearCache.
C16_CacheSizeBounded ==
    /\ getCacheStats(parser) # Null
    /\ getCacheStats(parser).maxSize = parser.options.cacheSize
    /\ getCacheStats(parser).size \in 0..parser.options.cacheSize
    /\ result.op = "clear" => getCacheStats(parser).size = 0

\* C16 witness: a lookup has just inserted a value into a cache that was full:
\* more addresses were found since the load than the cache can hold, and the
\* cache holds exactly maxSize entries, the last of them the address queried.
C16_Witness ==
    /\ result.via = "found"
    /\ Cardinality(found) > parser.options.cacheSize
    /\ getCacheStats(parser).size = parser.options.cacheSize
    /\ parser.cache.cache[Len(parser.cache.cache)].k = CacheKey(result.ip)

(***************************************************************************)
(* Properties of the lookups of a loaded facade (LangSpec).                *)
(***************************************************************************)
\* C17: get, getWithPrefixLength and getWithLanguage leave the image bytes,
\* the metadata, the walker, the decoder and the options of the facade as
\* they were.  The cache keeps its maxSize, and its entries either stay as
\* they are or end with the entry of the queried address, behind the former
\* entries without that address or without the least recently used one; an
\* address that had an entry keeps the value of that entry, also when
\* getWithLanguage returns that value with name fields added.
C17_LookupsOnlyTouchCache ==
    [][LET key == CacheKey(lastCall'.ip)
           old == parser.cache.cache
           new == parser'.cache.cache
       IN  /\ lastCall'.op \in {"get", "getWithPrefixLength", "getWithLanguage"}
           /\ parser'.data = parser.data
           /\ parser'.metadata = parser.metadata
           /\ parser'.walker = parser.walker
           /\ parser'.decoder = parser.decoder
           /\ parser'.options = parser.options
           /\ parser'.cache.maxSize = parser.cache.maxSize
           /\ \/ new = old
              \/ /\ new # <<>>
                 /\ new[Len(new)].k = key
                 /\ \/ SubSeq(new, 1, Len(new) - 1) = CacheDelete(old, key)
                    \/ /\ Len(old) >= parser.cache.maxSize
                       /\ SubSeq(new, 1, Len(new) - 1) = Tail(old)
                 /\ CacheHas(parser.cache, key)
                       => new[Len(new)].v = CacheValue(parser.cache, key)]_vars

\* C17 witness: getWithLanguage has returned a value with name fields for an
\* address whose entry in the full cache is the decoded value without them.
C17_Witness ==
    /\ lastCall.op = "getWithLanguage"
    /\ ~lastCall.threw
    /\ Cached(parser, lastCall.ip)
    /\ lastCall.value # CachedValue(parser, lastCall.ip)
    /\ getCacheStats(parser).size = parser.cache.maxSize

(***************************************************************************)
(* Properties of the walk on its own (TreeSpec).                           *)
(***************************************************************************)
\* the record stored in node nodeNumber on the side of bit, as the digits
\* of the unsigned big-endian number its bits form
StoredRecord(w, nodeNumber, bit) ==
    LET offset == nodeNumber * w.metadata.nodeByteSize.v
        side == IF bit # 0 THEN 4 ELSE 0
    IN  IF w.metadata.recordSize.v = 32
        THEN StripZeros(<<U8(w.data, offset + side), U8(w.data, offset + side + 1),
                          U8(w.data, offset + side + 2), U8(w.data, offset + side + 3)>>)
        ELSE Digits256(IF bit # 0 THEN ReadRight(w.data, w.metadata.recordSize.v, offset)
                       ELSE ReadLeft(w.data, w.metadata.recordSize.v, offset))

\* whether the digits are those of a node number, a number below nodeCount
IsNode(w, digits) == \E n \in 0..(w.metadata.nodeCount.v - 1) : digits = Digits256(n)

RECURSIVE PathEnd(_, _, _, _)
\* the walk C18 describes, from the value with these digits after steps
\* steps: <<digits of the final value, steps taken>>
PathEnd(w, ipBytes, digits, steps) ==
    IF steps < 8 * Len(ipBytes) /\ IsNode(w, digits)
    THEN PathEnd(w, ipBytes,
                 StoredRecord(w, CHOOSE n \in 0..(w.metadata.nodeCount.v - 1) :
                                     digits = Digits256(n),
                              bitAt(ipBytes, steps)),
                 steps + 1)
    ELSE <<digits, steps>>

\* whether got is what C18 gives for a walk that ends as path does
IsPathResult(w, ipBytes, got, path) ==
    /\ got.prefixLength = path[2]
    /\ got.prefixLength \in 0..(8 * Len(ipBytes))
    /\ IF IsNode(w, path[1]) \/ path[1] = Digits256(w.metadata.nodeCount.v)
       THEN got.record = Null
       ELSE got.record # Null /\ Digits256(got.record.v) = path[1]

\* C18: walk(addr) starts at node 0, or at the IPv4 start node for 4 bytes,
\* follows at step d the left record on bit d = 0 and the right record on
\* bit d = 1, and stops after the first step that gives a value >= nodeCount
\* or when the 8 * len(addr) bits are used up; prefixLength is the number of
\* steps, within 0..8 * len(addr), and record is the final value when it is
\* above nodeCount, null otherwise.
C18_WalkFollowsBits ==
    lastCall.op = "walk" =>
        IsPathResult(treeWalker, lastCall.ipBytes, lastCall.got,
                     PathEnd(treeWalker, lastCall.ipBytes,
                             Digits256(StartNode(treeWalker, lastCall.ipBytes)), 0))

(***************************************************************************)
(* Properties of decodePointer (PointerSpec).                              *)
(***************************************************************************)
\* the size class of a pointer's control byte: its bits 3-4
SizeClass(ctrlByte) == (ctrlByte \div 8) % 4

\* the packed number of a pointer, as its base-256 digits: the low 3 bits of
\* the control byte before the next 1, 2 or 3 bytes, or the next 4 bytes alone
PackedDigits(ctrlByte, ext) ==
    CASE SizeClass(ctrlByte) = 0 -> StripZeros(<<ctrlByte % 8, ext[1]>>)
      [] SizeClass(ctrlByte) = 1 -> StripZeros(<<ctrlByte % 8, ext[1], ext[2]>>)
      [] SizeClass(ctrlByte) = 2 -> StripZeros(<<ctrlByte % 8, ext[1], ext[2], ext[3]>>)
      [] OTHER -> StripZeros(ext)

\* C19: a pointer of size class c gives the target offset baseOffset +
\* classBase[c] + packed, classBase = [0, 2048, 526336, 0], packed the 11-,
\* 19- or 27-bit number of the control byte's low 3 bits and the next 1, 2
\* or 3 bytes, or the 32-bit number of the next 4 bytes; decode returns the
\* value decoded at the target with the next offset just past the c + 2
\* bytes of the pointer.
C19_PointerTarget ==
    lastCall.op = "decodePointer" =>
        /\ Digits256(lastCall.got.value - lastCall.baseOffset
                     - <<0, 2048, 526336, 0>>[SizeClass(lastCall.ctrlByte) + 1])
               = PackedDigits(lastCall.ctrlByte, lastCall.ext)
        /\ lastCall.got.offset = SizeClass(lastCall.ctrlByte) + 2
        /\ lastCall.target.ok =>
               /\ lastCall.whole.ok
               /\ lastCall.whole.value = lastCall.target.value
               /\ lastCall.whole.offset = SizeClass(lastCall.ctrlByte) + 2

(***************************************************************************)
(* Properties of the decoder on truncated images (TruncSpec).              *)
(***************************************************************************)
\* C20: decoding reads no byte at or beyond the end of the image: a value
\* whose control byte, size bytes or payload bytes are missing at the end of
\* the image makes decode fail with an error, and gives no value.
C20_TruncatedFails ==
    lastCall.op = "truncated" => ~lastCall.got.ok

(***************************************************************************)
(* Properties of the decoder on records that lead back to themselves       *)
(* (CycleSpec).                                                            *)
(***************************************************************************)
\* the offsets in ImageCycle of the records that lead back to themselves
CyclicOffsets == {40 + off : off \in {0, 2, 4, 6, 11}}

\* the query strings whose walk ends on one of them
CyclicIps == {IP_1_1_1_1, IP_2_0_0_0, IP_128_0_0_1, IP_160_0_0_1, IP_192_0_0_1}

\* what decode gives when the calls nest beyond the call stack
StackOverflow == Throw("RangeError: Maximum call stack size exceeded")

C22_Unsigned32 ==
    (lastCall.op = "readNode" /\ lastCall.recordSize = 32) =>
        /\ lastCall.left >= 0
        /\ lastCall.right >= 0
        /\ Digits256(lastCall.left) = StripZeros(SubSeq(lastCall.node, 1, 4))
        /\ Digits256(lastCall.right) = StripZeros(SubSeq(lastCall.node, 5, 8))

\* C23: with recordSize 28 the left reader gives the high nibble of byte 3
\* times 2^24 plus the big-endian number of bytes 0..2, the right reader the
\* low nibble of byte 3 times 2^24 plus the big-endian number of bytes 4..6;
\* both lie in [0, 2^28).
C23_Nibbles28 ==
    (lastCall.op = "readNode" /\ lastCall.recordSize = 28) =>
        /\ lastCall.left = (lastCall.node[4] \div 16) * 16777216
                           + lastCall.node[1] * 65536 + lastCall.node[2] * 256
                           + lastCall.node[3]
        /\ lastCall.right = (lastCall.node[4] % 16) * 16777216
                            + lastCall.node[5] * 65536 + lastCall.node[6] * 256
                            + lastCall.node[7]
        /\ lastCall.left \in 0..268435455
        /\ lastCall.right \in 0..268435455

\* C23 witness: the node 01 02 03 A5 FF FF FF has been read: byte 3 holds
\* the nibbles A and 5, and the right record has every other bit set
C23_Witness ==
    /\ lastCall.op = "readNode"
    /\ lastCall.recordSize = 28
    /\ lastCall.node = <<1, 2, 3, 165, 255, 255, 255>>
    /\ lastCall.left = 167838211
    /\ lastCall.right = 100663295

(***************************************************************************)
(* Properties of the 32-bit numbers of the decoder (Uint32Spec).           *)
(***************************************************************************)
\* C24: a Uint32 of size 0..4 decodes to the unsigned big-endian number of
\* its payload bytes, 0 for size 0, and the packed value of a pointer of
\* size class 3 is the unsigned number of its four bytes: never a negative
\* number.
C24_Uint32Unsigned ==
    /\ lastCall.op = "uint32" =>
          /\ lastCall.got.ok
          /\ lastCall.got.value.t = "num"
          /\ lastCall.got.value.v >= 0
          /\ Digits256(lastCall.got.value.v) = StripZeros(lastCall.payload)
    /\ lastCall.op = "packed" =>
          /\ lastCall.got.value >= 0
          /\ Digits256(lastCall.got.value) = StripZeros(lastCall.payload)

(***************************************************************************)
(* Properties of the decoder on an Int32 (Int32Spec).                      *)
(***************************************************************************)
RECURSIVE BigEndian(_)
\* the unsigned big-endian number of at most three bytes
BigEndian(bytes) ==
    IF bytes = <<>> THEN 0
    ELSE BigEndian(SubSeq(bytes, 1, Len(bytes) - 1)) * 256 + bytes[Len(bytes)]

\* the two's-complement number of 0..4 big-endian bytes, sign-extended
SignExtended(bytes) ==
    IF bytes = <<>> THEN 0
    ELSE (IF bytes[1] >= 128 THEN bytes[1] - 256 ELSE bytes[1]) * Pow2(8 * (Len(bytes) - 1))
         + BigEndian(Tail(bytes))

\* C25: an Int32 of size 0..4 decodes to its big-endian payload bytes
\* sign-extended: 0 for size 0, a negative number when the most significant
\* bit of the payload is set; the next offset is `size` bytes on.
C25_Int32SignExtended ==
    lastCall.op = "int32" =>
        /\ lastCall.got.ok
        /\ lastCall.got.value = Num(SignExtended(lastCall.payload))
        /\ lastCall.got.offset = 2 + Len(lastCall.payload)

(***************************************************************************)
(* Properties of MMDBMetadataParser.parse (ParseSpec).                     *)
(***************************************************************************)
\* C26: parse throws when the image holds no marker; otherwise it gives the
\* metadata of the one value that starts at the byte after the last marker
\* of the image, whatever stands before that marker and behind the value,
\* with a pointer inside the value counted from that byte.
C26_LastMarker ==
    /\ lastCall.op = "parseUnmarked" =>
          lastCall.got = Throw("Could not find metadata start marker")
    /\ lastCall.op = "parse" =>
          /\ lastCall.got.ok
          /\ lastCall.got.value.recordSize = Num(lastCall.recordSize)
          /\ lastCall.got.value.nodeCount = Num(lastCall.nodeCount)
          /\ lastCall.got.value.ipVersion = Num(lastCall.ipVersion)
          /\ lastCall.got.value.databaseType = Str(<<84>>)
          /\ lastCall.got.value.binaryFormatMajorVersion = Num(2)

\* C26 witness: an image with two markers, a metadata map of node_count 200
\* behind the first, and behind the last a map whose node_count is a pointer
\* to the number 5, followed by two more bytes, has been parsed
C26_Witness ==
    /\ lastCall.op = "parse"
    /\ lastCall.prefix = MetadataSection(28, 200, 4, TRUE)
    /\ lastCall.pointed
    /\ lastCall.suffix = <<0, 255>>
    /\ lastCall.recordSize = 24
    /\ lastCall.got.ok
    /\ lastCall.got.value.nodeCount = Num(5)

(***************************************************************************)
(* Properties of LRUCache (LruSpec).                                       *)
(***************************************************************************)
\* the keys of the entries of a cache
KeysOf(c) == {c.cache[i].k : i \in 1..Len(c.cache)}

\* the key of c whose last use is the oldest
LeastRecent(c, recent) ==
    recent[CHOOSE i \in 1..Len(recent) :
               /\ recent[i] \in KeysOf(c)
               /\ \A j \in 1..(i - 1) : recent[j] \notin KeysOf(c)]

\* C27: a set of a new key on a full cache removes exactly one entry, the
\* one whose last hit or insertion is the oldest; a get that hits and a set
\* of an existing key remove no entry.
C27_EvictsLeastRecent ==
    /\ (lastCall.op = "set" /\ lastCall.key \notin KeysOf(lastCall.before)
        /\ Len(lastCall.before.cache) >= lastCall.before.maxSize) =>
          KeysOf(lastCall.after)
              = (KeysOf(lastCall.before)
                 \ {LeastRecent(lastCall.before, lastCall.recentBefore)})
                \cup {lastCall.key}
    /\ (lastCall.op = "set" /\ lastCall.key \notin KeysOf(lastCall.before)
        /\ Len(lastCall.before.cache) < lastCall.before.maxSize) =>
          KeysOf(lastCall.after) = KeysOf(lastCall.before) \cup {lastCall.key}
    /\ (lastCall.op \in {"get", "set"} /\ lastCall.key \in KeysOf(lastCall.before)) =>
          KeysOf(lastCall.after) = KeysOf(lastCall.before)
    /\ (lastCall.op = "get" /\ lastCall.key \notin KeysOf(lastCall.before)) =>
          lastCall.after = lastCall.before

\* C27 witness: a set of a new key on a full cache of at least two entries
\* has removed an entry that was not the last one inserted or hit: the
\* entry inserted first was used again before the set
C27_Witness ==
    /\ lastCall.op = "set"
    /\ lastCall.key \notin KeysOf(lastCall.before)
    /\ Len(lastCall.before.cache) >= 2
    /\ Len(lastCall.before.cache) = lastCall.before.maxSize
    /\ Len(lastCall.recentBefore) > Len(lastCall.before.cache)
    /\ LeastRecent(lastCall.before, lastCall.recentBefore) \notin KeysOf(lastCall.after)

(***************************************************************************)
(* Properties of the facade across loads (Spec).                           *)
(***************************************************************************)
\* C28: after any sequence of load and lookup calls, every entry of the
\* cache holds the value that a lookup of its address without a cache
\* returns against the image now loaded.
\* p holds the image, metadata, walker and decoder of one successful load
Coherent(p) == isValid(p) /\ load(p, p.data) = [self |-> p, threw |-> FALSE, error |-> ""]

\* C28: after any sequence of load and lookup calls that leaves one image
\* loaded, every entry of the cache holds the value that a lookup of its
\* address without a cache returns against that image.
C28_CacheMatchesImage ==
    Coherent(parser) =>
        \A ip \in Ips :
            Cached(parser, ip) =>
                CachedValue(parser, ip)
                    = getWithPrefixLength([parser EXCEPT !.cache = Null], ip).data

\* C29: whenever isValid() is true, the metadata, walker and decoder of the
\* facade are those a load of the image it holds builds: the nodeCount and
\* searchTreeSize of this.metadata, which classify a record and give its
\* data offset, are those of the walker's metadata, and the walker and the
\* decoder read the image the facade holds.
C29_FieldsOfOneImage ==
    isValid(parser) =>
        /\ parser.metadata.nodeCount = parser.walker.metadata.nodeCount
        /\ parser.metadata.searchTreeSize = parser.walker.metadata.searchTreeSize
        /\ parser.walker.data = parser.data
        /\ parser.decoder.data = parser.data
        /\ Coherent(parser)

\* C30: on a facade holding a loaded ipVersion 4 database, a lookup of an
\* address of 16 bytes returns no data.
C30_NoDataForIPv6OnIPv4 ==
    ( /\ result.op = "get"
      /\ Coherent(parser)
      /\ parser.metadata.ipVersion = Num(4)
      /\ isValidIP(result.ip)
      /\ Len(ipToBytes(result.ip)) = 16 ) => result.data = Null

=========================================================================
